---------------------------- MODULE Spec2Model ----------------------------
(***************************************************************************)
(* QMB6Pro acquisition layer: the register codec and acquisition pass      *)
(* (modbus_client.read_all), port discovery (autodetect) and the GUI's     *)
(* poll/reconnect worker with the UI thread beside it (app_gui.App).       *)
(*                                                                         *)
(* The specifications share the variables:                                 *)
(*   SpecRead     one acquisition pass over a register list, read by read  *)
(*   SpecScan     one Discovery scan, call by call, in a still environment *)
(*   Spec         the worker loop with its Discovery scans, the UI thread  *)
(*                and the serial environment changing beside them;         *)
(*                SpecFair adds the worker's scheduling                    *)
(*   SpecWait     app.wait_for_device with its Discovery scans             *)
(*   SpecWrite    writes through the settings panel beside the worker's    *)
(*                acquisition passes                                       *)
(*   SpecDecode   the decoding of one register over a grid of words        *)
(*   SpecCompare  app.read_all beside modbus_client.read_all               *)
(***************************************************************************)
EXTENDS Integers, Sequences, FiniteSets, TLC

(***************************************************************************)
(* Bounds of the model.                                                    *)
(***************************************************************************)
MaxRegs == 2
MaxPorts == 2
MaxEvents == 3
MaxTries == 3
\* the changes of the serial environment and of the file in one behaviour
MaxEnvSteps == 2

(***************************************************************************)
(* Python values.  A value is a record of one shape so that any two can be *)
(* compared: ty is the Python type, n the content (the number, the truth   *)
(* value as 0/1, or the characters of a str as their code points), l the   *)
(* items of a list.  A str is the sequence of its code points throughout:  *)
(* 'ERR:' is <<69, 82, 82, 58>>.                                           *)
(***************************************************************************)
PyBool(b) == [ty |-> "bool", tag |-> "", n |-> <<IF b THEN 1 ELSE 0>>, l |-> <<>>]
\* A number q * 65536 + r, kept as its two digits <<q, r>> with 0 <= r < 65536:
\* a product of a 32-bit register value and a scale need not fit a machine word.
PyBig(q, r) ==
    [ty |-> "num", tag |-> "", n |-> <<q + (r \div 65536), r % 65536>>, l |-> <<>>]
PyNum(x) == PyBig(0, x)
PyStr(chars) == [ty |-> "str", tag |-> "", n |-> chars, l |-> <<>>]
PyList(labels) == [ty |-> "list", tag |-> "", n |-> <<>>, l |-> labels]
PyNone == [ty |-> "None", tag |-> "", n |-> <<>>, l |-> <<>>]

\* 'ERR:'
ErrPrefixBytes == <<69, 82, 82, 58>>

\* type(e).__name__ of the exceptions of the model
TypeName(kind) ==
    CASE kind = "KeyError" -> <<75, 101, 121, 69, 114, 114, 111, 114>>
      [] kind = "IndexError" -> <<73, 110, 100, 101, 120, 69, 114, 114, 111, 114>>
      [] kind = "ValueError" -> <<86, 97, 108, 117, 101, 69, 114, 114, 111, 114>>
      [] kind = "AttributeError" -> <<65, 116, 116, 114, 105, 98, 117, 116, 101, 69, 114, 114, 111, 114>>
      [] kind = "FileNotFoundError" -> <<70, 105, 108, 101, 78, 111, 116, 70, 111, 117, 110, 100, 69, 114, 114, 111, 114>>
      [] kind = "SerialException" -> <<83, 101, 114, 105, 97, 108, 69, 120, 99, 101, 112, 116, 105, 111, 110>>
      [] kind = "NoResponseError" -> <<78, 111, 82, 101, 115, 112, 111, 110, 115, 101, 69, 114, 114, 111, 114>>
      [] kind = "IllegalRequestError" -> <<73, 108, 108, 101, 103, 97, 108, 82, 101, 113, 117, 101, 115, 116, 69, 114, 114, 111, 114>>

\* f'ERR:{type(e).__name__}'
ErrMarker(kind) == PyStr(ErrPrefixBytes \o TypeName(kind))

\* 'UNSUPPORTED'
Unsupported == PyStr(<<85, 78, 83, 85, 80, 80, 79, 82, 84, 69, 68>>)

\* isinstance(val, str) and val.startswith('ERR:')
IsErrStr(val) ==
    /\ val.ty = "str"
    /\ Len(val.n) >= Len(ErrPrefixBytes)
    /\ SubSeq(val.n, 1, Len(ErrPrefixBytes)) = ErrPrefixBytes

(***************************************************************************)
(* Python dict, insertion ordered: a sequence of key/value pairs; storing  *)
(* under a key already present replaces the value in place.                *)
(***************************************************************************)
DictKeys(d) == [i \in 1..Len(d) |-> d[i].k]
DictHas(d, k) == \E i \in 1..Len(d) : d[i].k = k
DictGet(d, k) ==
    IF DictHas(d, k) THEN d[CHOOSE i \in 1..Len(d) : d[i].k = k].v ELSE PyNone
DictSet(d, k, v) ==
    IF DictHas(d, k)
    THEN [i \in 1..Len(d) |-> IF d[i].k = k THEN [k |-> k, v |-> v] ELSE d[i]]
    ELSE Append(d, [k |-> k, v |-> v])

(***************************************************************************)
(* 16-bit words and bit operations.                                        *)
(***************************************************************************)
Hi(w) == (w \div 256) % 256
Lo(w) == w % 256

RECURSIVE BitAnd(_, _)
BitAnd(a, b) ==
    IF a = 0 \/ b = 0 THEN 0
    ELSE (IF a % 2 = 1 /\ b % 2 = 1 THEN 1 ELSE 0) + 2 * BitAnd(a \div 2, b \div 2)

(***************************************************************************)
(* Register descriptors.  keys is the set of fields the JSON object holds; *)
(* a field outside keys is absent (r['x'] raises KeyError, r.get('x', d)   *)
(* gives d).  map is the symbol map as key/label pairs in file order.      *)
(***************************************************************************)
Reg(name, type, address, keys) ==
    [name |-> name, type |-> type, address |-> address, function |-> 3,
     scale |-> 1, words |-> 1, map |-> <<>>, min |-> 0, max |-> 0, keys |-> keys]

BaseKeys == {"name", "type", "address"}

Family16 == {"uint16", "int16", "enum16", "bool16", "command16", "bitmask16"}
FamilyWide == {"uint32", "int32", "ip32", "mac48", "ascii"}

\* r.get('function', 3), r.get('scale', 1.0), r.get('words', 1)
FnOf(r) == IF "function" \in r.keys THEN r.function ELSE 3
ScaleOf(r) == IF "scale" \in r.keys THEN r.scale ELSE 1
WordsOf(r) == IF "words" \in r.keys THEN r.words ELSE 1

\* The read a descriptor issues: none when a lookup before it raises or the
\* type is in neither family.
IssuesRead(r) ==
    /\ "type" \in r.keys
    /\ "address" \in r.keys
    /\ r.type \in Family16 \cup FamilyWide

CountOf(r) ==
    IF r.type \in Family16 THEN 1
    ELSE IF r.type = "ascii" THEN WordsOf(r)
    ELSE IF r.type = "mac48" THEN 3
    ELSE 2

\* Mutant: every read with function code 3.
Request_holdingOnly(r) == [addr |-> r.address, count |-> CountOf(r), fn |-> 3]

Request(r) == [addr |-> r.address, count |-> CountOf(r), fn |-> FnOf(r)]

(***************************************************************************)
(* A transport response: the words read, or the exception raised.          *)
(***************************************************************************)
Words(ws) == [exc |-> "", words |-> ws]
Raises(kind) == [exc |-> kind, words |-> <<>>]

(***************************************************************************)
(* The serial line as a client sees it.  A client is the (port, baud,      *)
(* parity) it was constructed with, or None.  A line is what the device    *)
(* behind it does: up (it answers), exc (the exception a failed read       *)
(* raises), fail (the positions of the register list whose read fails even *)
(* though the line is up), mem (the device's registers from address 0).    *)
(***************************************************************************)
None == [port |-> "None", baud |-> 0, parity |-> "None"]
Client(port, baud, parity) == [port |-> port, baud |-> baud, parity |-> parity]

Line(up, exc, fail, mem) == [up |-> up, exc |-> exc, fail |-> fail, mem |-> mem]

\* cli.read_regs(addr, count, fn) for the descriptor at position i.
read_regs(cli, line, i, req) ==
    IF cli = None THEN Raises("AttributeError")
    ELSE IF ~line.up \/ i \in line.fail THEN Raises(line.exc)
    ELSE IF req.addr + req.count > Len(line.mem) THEN Raises("IllegalRequestError")
    ELSE Words([k \in 1..req.count |-> line.mem[req.addr + k]])

(***************************************************************************)
(* Text helpers of modbus_client.                                          *)
(***************************************************************************)
\* [hi(w0), lo(w0), hi(w1), lo(w1), ...]
RECURSIVE WordBytes(_)
WordBytes(ws) ==
    IF ws = <<>> THEN <<>> ELSE <<Hi(Head(ws)), Lo(Head(ws))>> \o WordBytes(Tail(ws))

IsSpace(c) == c \in {9, 10, 11, 12, 13, 28, 29, 30, 31, 32}

RECURSIVE RStrip(_, _)
RStrip(bs, drop) ==
    IF bs # <<>> /\ bs[Len(bs)] \in drop THEN RStrip(SubSeq(bs, 1, Len(bs) - 1), drop)
    ELSE bs

RECURSIVE LStrip(_, _)
LStrip(bs, drop) ==
    IF bs # <<>> /\ Head(bs) \in drop THEN LStrip(Tail(bs), drop) ELSE bs

SpaceBytes == {c \in 0..127 : IsSpace(c)}

\* bs.decode('ascii', errors='ignore').rstrip('\x00').strip()
words_to_ascii(ws) ==
    LET ascii == SelectSeq(WordBytes(ws), LAMBDA c : c < 128)
    IN  PyStr(LStrip(RStrip(RStrip(ascii, {0}), SpaceBytes), SpaceBytes))

\* str(x) of a non-negative integer: its decimal digits
RECURSIVE DecChars(_)
DecChars(x) == IF x < 10 THEN <<48 + x>> ELSE DecChars(x \div 10) \o <<48 + (x % 10)>>

\* f"{x:02X}" of a byte: two uppercase hexadecimal digits
HexDigit(d) == IF d < 10 THEN 48 + d ELSE 55 + d
Hex2(x) == <<HexDigit(x \div 16), HexDigit(x % 16)>>

\* sep.join(parts)
RECURSIVE Join(_, _)
Join(parts, sep) ==
    IF parts = <<>> THEN <<>>
    ELSE IF Len(parts) = 1 THEN parts[1]
    ELSE parts[1] \o sep \o Join(Tail(parts), sep)

\* '.'.join(str(x) for x in b)
words_to_ip(ws) ==
    LET b == WordBytes(ws)
    IN  PyStr(Join([i \in 1..Len(b) |-> DecChars(b[i])], <<46>>))

(***************************************************************************)
(* Decoding one descriptor from the words read for it.                     *)
(***************************************************************************)
MapHas(m, key) == \E i \in 1..Len(m) : m[i].k = key
MapLabel(m, key) == m[CHOOSE i \in 1..Len(m) : m[i].k = key].label

\* flags, in map order, of the entries whose mask meets w
RECURSIVE Flags(_, _)
Flags(m, w) ==
    IF m = <<>> THEN <<>>
    ELSE (IF BitAnd(w, Head(m).k) # 0 THEN <<Head(m).label>> ELSE <<>>)
         \o Flags(Tail(m), w)

Decode16(r, w) ==
    IF r.type = "bool16" THEN PyBool(w # 0)
    ELSE IF r.type = "enum16" /\ "map" \in r.keys
    THEN IF MapHas(r.map, w) THEN PyStr(MapLabel(r.map, w)) ELSE PyNum(w)
    ELSE IF r.type = "bitmask16" /\ "map" \in r.keys
    THEN PyList(Flags(r.map, w))
    ELSE PyNum(w * ScaleOf(r))

\* Mutant: the first word read is always the high half.
Assemble32_bigOnly(ws, endianness) == <<ws[1], ws[2]>>

\* (words[0] << 16) | words[1] if be else (words[1] << 16) | words[0], as the
\* pair <<high half, low half>>
Assemble32(ws, endianness) ==
    IF endianness = "big" THEN <<ws[1], ws[2]>> ELSE <<ws[2], ws[1]>>

\* val & 0x80000000 is bit 15 of the high half; -((~val & 0xFFFFFFFF) + 1) is
\* val - 2^32, that is the high half less 65536.
Decode32(r, ws, endianness) ==
    LET val == Assemble32(ws, endianness)
        hi == IF r.type = "int32" /\ val[1] >= 32768 THEN val[1] - 65536 ELSE val[1]
    IN  PyBig(hi * ScaleOf(r), val[2] * ScaleOf(r))

\* b = [hi of each word] + [lo of each word]; b[:6] as uppercase hex pairs
DecodeMac(ws) ==
    LET b == [i \in 1..Len(ws) |-> Hi(ws[i])] \o [i \in 1..Len(ws) |-> Lo(ws[i])]
        b6 == SubSeq(b, 1, IF Len(b) < 6 THEN Len(b) ELSE 6)
    IN  PyStr(Join([i \in 1..Len(b6) |-> Hex2(b6[i])], <<58>>))

DecodeWide(r, ws, endianness) ==
    IF r.type = "ascii" THEN words_to_ascii(ws)
    ELSE IF r.type = "ip32" THEN words_to_ip(ws)
    ELSE IF r.type = "mac48" THEN DecodeMac(ws)
    ELSE Decode32(r, ws, endianness)

(***************************************************************************)
(* The body of read_all's loop for the descriptor at position i.           *)
(* TryBody is the try block up to the assignment: the value to store, or   *)
(* the exception raised.  read_one adds the stores: out[r['name']] in the  *)
(* try block and in the handler, each raising KeyError without a name, so  *)
(* that a nameless descriptor's KeyError leaves read_all.                  *)
(***************************************************************************)
TryBody(cli, line, i, r, endianness) ==
    IF "type" \notin r.keys \/ "address" \notin r.keys THEN [exc |-> "KeyError", v |-> PyNone]
    ELSE IF ~IssuesRead(r) THEN [exc |-> "", v |-> Unsupported]
    ELSE LET resp == read_regs(cli, line, i, Request(r))
         IN  IF resp.exc # "" THEN [exc |-> resp.exc, v |-> PyNone]
             ELSE IF r.type \in Family16
             THEN [exc |-> "", v |-> Decode16(r, resp.words[1])]
             ELSE [exc |-> "", v |-> DecodeWide(r, resp.words, endianness)]

\* Mutants of the handler: one that starts the mapping afresh, one that stores
\* nothing.
HandlerStore_fresh(out, r, kind) == DictSet(<<>>, r.name, ErrMarker(kind))
HandlerStore_skip(out, r, kind) == out

\* except Exception as e: out[r['name']] = f'ERR:{type(e).__name__}'
HandlerStore(out, r, kind) == DictSet(out, r.name, ErrMarker(kind))

read_one(cli, line, i, r, endianness, out) ==
    LET body == TryBody(cli, line, i, r, endianness)
    IN  IF "name" \notin r.keys THEN [exc |-> "KeyError", out |-> out]
        ELSE IF body.exc # "" THEN [exc |-> "", out |-> HandlerStore(out, r, body.exc)]
        ELSE [exc |-> "", out |-> DictSet(out, r.name, body.v)]

\* The pass from position i on, with out so far.
RECURSIVE ReadFrom(_, _, _, _, _, _)
ReadFrom(cli, line, regs, endianness, i, out) ==
    IF i > Len(regs) THEN [exc |-> "", out |-> out]
    ELSE LET one == read_one(cli, line, i, regs[i], endianness, out)
         IN  IF one.exc # "" THEN one
             ELSE ReadFrom(cli, line, regs, endianness, i + 1, one.out)

read_all(cli, line, regs, endianness) == ReadFrom(cli, line, regs, endianness, 1, <<>>)

(***************************************************************************)
(* State.                                                                  *)
(*   regs, endianness, cfgProbe   the register map the process loaded:     *)
(*                      'registers', 'endianness' and 'probe'              *)
(*   ports, portState   the serial ports the OS reports, in its order, and *)
(*                      what is behind each                                *)
(*   cfgOk              registers.json can be opened and parsed            *)
(*   line               the device behind the client of a single pass, and *)
(*                      the registers it holds as writes change them       *)
(*   rpc, ri, rout, rexc, reads   one read_all call: position, index of    *)
(*                      the next descriptor, out, the exception that left  *)
(*                      the call, the reads issued so far                  *)
(*   spc, sidx, probed, det, scands, sexc   one autodetect call: position, *)
(*                      index of the next candidate, the candidates probed *)
(*                      so far with the outcome of each, the value         *)
(*                      returned, the candidates of the ports listed when  *)
(*                      the call read them, the exception that left it     *)
(*   envSteps           the number of changes of the environment so far    *)
(*   parityNames        the names X for which the installed serial module  *)
(*                      declares PARITY_X (the module is not part of the   *)
(*                      repository)                                        *)
(*   connected, cli, q, stop   App: self.connected, self.cli, self.q and   *)
(*                      self._stop                                         *)
(*   wpc, wdet, wexc    the worker thread: its position in _worker_loop,   *)
(*                      det, and the exception being handled               *)
(*   upc, ureq          the UI thread: its position in _commit/_on_write   *)
(*                      and the (register name, text) being written        *)
(*   statusVar, widgetsOn   what _ui_tick last showed: the status text and *)
(*                      whether the settings widgets are enabled           *)
(*   wire               the reads and writes in flight on the connection   *)
(*   produced, iter     history: every event put on the queue so far, and  *)
(*                      what the current turn of the worker loop has done  *)
(*   found              what a scan of the present serial environment      *)
(*                      returns or raises (autodetect() called now)        *)
(*   wf                 the frame of app.wait_for_device: its arguments,   *)
(*                      its position, the calls it has made, its result    *)
(*   wr                 the writes through one field of the settings       *)
(*                      panel: register, texts, the error raised, the      *)
(*                      write_single calls, the values read back           *)
(*   ar                 one call of app.read_all (the command-line app's   *)
(*                      acquisition pass): position, index of the next     *)
(*                      descriptor, out, the exception that left the call, *)
(*                      the reads issued so far                            *)
(***************************************************************************)
VARIABLES regs, endianness, cfgProbe, ports, portState, cfgOk, line,
          rpc, ri, rout, rexc, reads,
          spc, sidx, probed, det, scands, sexc,
          connected, cli, q, stop, wpc, wdet, wexc, upc, ureq,
          statusVar, widgetsOn, wire, produced, iter,
          found, parityNames, envSteps, wf, wr, ar

cfgVars == <<regs, endianness, cfgProbe>>
envVars == <<ports, portState, cfgOk, found, parityNames, envSteps>>
readVars == <<line, rpc, ri, rout, rexc, reads>>
scanVars == <<spc, sidx, probed, det, scands, sexc>>
workerVars == <<wpc, wdet, wexc>>
uiVars == <<upc, ureq, statusVar, widgetsOn>>
appVars == <<connected, cli, q, stop, workerVars, uiVars, wire, produced, iter>>
pathVars == <<wf, wr, ar>>
vars == <<cfgVars, envVars, readVars, scanVars, appVars, pathVars>>

(***************************************************************************)
(* Inputs of a pass: descriptors of the data model (each with its own      *)
(* name), with and without the optional and the required fields, and the   *)
(* registers of a device.                                                  *)
(***************************************************************************)
\* {"0": "internal", "1": "external"}
OscMap == <<[k |-> 0, label |-> <<105, 110, 116, 101, 114, 110, 97, 108>>],
            [k |-> 1, label |-> <<101, 120, 116, 101, 114, 110, 97, 108>>]>>

RegPool ==
    { Reg("U16", "uint16", 0, BaseKeys),
      Reg("I32", "int32", 1, BaseKeys),
      [Reg("OSC", "enum16", 2, BaseKeys \cup {"map"}) EXCEPT !.map = OscMap],
      Reg("F32", "float32", 0, BaseKeys),
      Reg("NOTYPE", "", 0, {"name", "address"}),
      Reg("NOADDR", "bool16", 0, {"name", "type"}),
      Reg("MAC", "mac48", 1, BaseKeys),
      [Reg("TXT", "ascii", 0, BaseKeys \cup {"words"}) EXCEPT !.words = 2] }

Memories == { <<16706, 65535, 65535, 1>>, <<0, 1, 0>> }

TransportErrors == {"NoResponseError", "SerialException"}

\* Register lists of 1..n descriptors, no descriptor twice.
RegLists(n) ==
    UNION { { s \in [1..k -> RegPool] : \A i, j \in 1..k : i # j => s[i] # s[j] }
            : k \in 1..n }

ProbeClient == Client("COM1", 9600, "N")

\* No probe in the map: cfg.get('probe') is None.
NoProbe == Reg("", "", 0, {})

\* No read_all call is being followed.
ReadIdle ==
    /\ line = Line(TRUE, "NoResponseError", {}, <<>>)
    /\ rpc = "idle"
    /\ ri = 1
    /\ rout = <<>>
    /\ rexc = ""
    /\ reads = <<>>

\* No autodetect call is being followed.
ScanIdle ==
    /\ spc = "idle"
    /\ sidx = 1
    /\ probed = <<>>
    /\ det = None
    /\ scands = <<>>
    /\ sexc = ""

\* The names pyserial declares (PARITY_NONE = 'N', PARITY_EVEN = 'E', ...),
\* and those of a serial module that also declares the one-letter names the
\* callers of RTUClient pass (COMMON_PARITIES, --parity N/E/O).
PySerialNames == {"NONE", "EVEN", "ODD", "MARK", "SPACE"}
LetterNames == PySerialNames \cup {"N", "E", "O"}

\* The value of serial.PARITY_<name>.
ParityValue(name) ==
    CASE name \in {"NONE", "N"} -> "N"
      [] name \in {"EVEN", "E"} -> "E"
      [] name \in {"ODD", "O"} -> "O"
      [] name = "MARK" -> "M"
      [] name = "SPACE" -> "S"
      [] OTHER -> ""

\* A scan that found nothing.
NotFound == [exc |-> "", det |-> None]

\* No call of app.read_all is being followed.
AppReadIdle == [pc |-> "idle", i |-> 1, out |-> <<>>, exc |-> "", reads |-> <<>>]

\* No text is being written: a text is the sequence of its code points.
NoRequest == [name |-> "", text |-> <<>>]

\* No write through the settings panel is being followed.
WriteIdle ==
    [pc |-> "idle", reg |-> NoProbe, n |-> 0, typed |-> <<>>, text |-> <<>>,
     exc |-> "", sent |-> FALSE, calls |-> <<>>, passes |-> 0, back |-> <<>>,
     pend |-> <<>>, readOf |-> [n |-> 0, up |-> FALSE], backOf |-> [n |-> 0, up |-> FALSE]]

\* No call of wait_for_device, no write through the settings panel and no
\* call of app.read_all is being followed.
PathIdle ==
    /\ ar = AppReadIdle
    /\ wf = [pc |-> "idle", given |-> {}, port_override |-> "", baud_override |-> 0,
             parity |-> "N", shown |-> FALSE, scans |-> 0, tries |-> <<>>,
             ret |-> None]
    /\ wr = WriteIdle

\* App.__init__: no client, not connected, the stop event clear, the queue
\* empty, the worker at the head of its loop, the UI thread in the main loop.
AppInit ==
    /\ connected = FALSE
    /\ cli = None
    /\ q = <<>>
    /\ stop = FALSE
    /\ wpc = "while"
    /\ wdet = None
    /\ wexc = ""
    /\ upc = "mainloop"
    /\ ureq = NoRequest
    /\ statusVar = "Waiting for device"
    /\ widgetsOn = FALSE
    /\ wire = {}
    /\ produced = <<>>
    /\ iter = <<>>

InitRead ==
    /\ regs \in RegLists(MaxRegs)
    /\ endianness \in {"big", "little"}
    /\ cfgProbe = NoProbe
    /\ ports = <<>>
    /\ portState = <<>>
    /\ cfgOk = TRUE
    /\ found = NotFound
    /\ parityNames = LetterNames
    /\ envSteps = 0
    /\ AppInit
    /\ PathIdle
    /\ \E f \in SUBSET (1..Len(regs)), m \in Memories, e \in TransportErrors :
          line = Line(TRUE, e, f, m)
    /\ rpc = "loop"
    /\ ri = 1
    /\ rout = <<>>
    /\ rexc = ""
    /\ reads = <<>>
    /\ ScanIdle

\* One turn of `for r in regs`: the read, the decode, the store.
ReadStep ==
    /\ rpc = "loop"
    /\ ri <= Len(regs)
    /\ LET one == read_one(ProbeClient, line, ri, regs[ri], endianness, rout)
       IN  /\ rout' = one.out
           /\ rexc' = one.exc
           /\ rpc' = IF one.exc # "" THEN "raised" ELSE "loop"
    /\ reads' = IF IssuesRead(regs[ri]) THEN Append(reads, Request(regs[ri])) ELSE reads
    /\ ri' = ri + 1
    /\ UNCHANGED <<cfgVars, envVars, line, scanVars, appVars, pathVars>>

\* return out
ReadReturn ==
    /\ rpc = "loop"
    /\ ri > Len(regs)
    /\ rpc' = "done"
    /\ UNCHANGED <<cfgVars, envVars, line, ri, rout, rexc, reads, scanVars, appVars, pathVars>>

NextRead == ReadStep \/ ReadReturn

SpecRead == InitRead /\ [][NextRead]_vars

(***************************************************************************)
(* Claims about one acquisition pass (SpecRead).                           *)
(***************************************************************************)
ReadEnded == rpc \in {"done", "raised"}

\* The transport read issued for the descriptor at position i raises.
ReadFails(i) ==
    /\ IssuesRead(regs[i])
    /\ read_regs(ProbeClient, line, i, Request(regs[i])).exc # ""

FailKind(i) == read_regs(ProbeClient, line, i, Request(regs[i])).exc

Entry(out, i) == DictGet(out, regs[i].name)

\* The pass over the same list and device, had the read at position i not failed.
PassWithout(i) ==
    read_all(ProbeClient, [line EXCEPT !.fail = @ \ {i}], regs, endianness)

NamesDistinct ==
    /\ \A i \in 1..Len(regs) : "name" \in regs[i].keys
    /\ \A i, j \in 1..Len(regs) : i # j => regs[i].name # regs[j].name

\* C3: when the transport read for register i raises, read_all still returns
\* normally, entry i is the marker 'ERR:<exception kind>', and every other
\* entry is the value it has in the pass where register i does not fail.
C3_FailureIsolated ==
    ReadEnded =>
        \A i \in 1..Len(regs) :
            ReadFails(i) =>
                /\ rpc = "done"
                /\ rexc = ""
                /\ Entry(rout, i) = ErrMarker(FailKind(i))
                /\ \A j \in 1..Len(regs) \ {i} :
                      Entry(rout, j) = Entry(PassWithout(i).out, j)

\* A finished pass in which one register's read failed on the wire and another
\* register decoded to a number.
C3_Witness ==
    /\ rpc = "done"
    /\ \E i, j \in 1..Len(regs) :
          /\ i < j
          /\ i \in line.fail
          /\ ReadFails(i)
          /\ ~ReadFails(j)
          /\ Entry(rout, j).ty = "num"
          /\ Entry(rout, i) = ErrMarker(line.exc)

\* C4: for descriptors with pairwise distinct names, of any type and with or
\* without their fields, whatever the transport does, the pass never aborts
\* and the mapping holds exactly one entry per descriptor read so far, keyed
\* by name, in register-list order.
C4_OneEntryPerDescriptor ==
    NamesDistinct =>
        /\ rpc # "raised"
        /\ rexc = ""
        /\ DictKeys(rout) = [i \in 1..(ri - 1) |-> regs[i].name]
        /\ rpc = "done" => ri - 1 = Len(regs)

\* A finished pass over a failing register and a descriptor without a type.
C4_Witness ==
    /\ rpc = "done"
    /\ Len(regs) = 2
    /\ NamesDistinct
    /\ \E i, j \in 1..Len(regs) :
          /\ ReadFails(i)
          /\ "type" \notin regs[j].keys
          /\ IsErrStr(Entry(rout, j))

(***************************************************************************)
(* Discovery (autodetect.py).                                              *)
(***************************************************************************)
COMMON_BAUDS == <<115200, 57600, 38400, 19200, 9600>>
COMMON_PARITIES == <<"N">>

\* What is behind a port: open, the port can be opened; baud, the rate at
\* which a device answers on it (8 data bits, no parity), 0 when none does.
Port(open, baud) == [open |-> open, baud |-> baud]

\* The registers of the instrument.
DeviceMem == <<16706, 65535, 65535, 1>>

\* RTUClient(port, baud, slave_id, parity=parity): the client, or the
\* exception of a port that cannot be opened (minimalmodbus.Instrument), or
\* that of getattr(serial, f'PARITY_{parity}') for a name the serial module
\* does not declare.
RTUClient(ps, port, baud, parity) ==
    IF ~(port \in DOMAIN ps /\ ps[port].open)
    THEN [exc |-> "SerialException", cli |-> None]
    ELSE IF parity \notin parityNames
    THEN [exc |-> "AttributeError", cli |-> None]
    ELSE [exc |-> "", cli |-> Client(port, baud, parity)]

\* The line as a client meets it: the port is opened for each call, and the
\* device answers when the rate and the parity are its own.
LineOf(ps, c) ==
    IF c.port \in DOMAIN ps /\ ps[c.port].open
    THEN Line(ps[c.port].baud = c.baud /\ ParityValue(c.parity) = "N",
              "NoResponseError", {}, DeviceMem)
    ELSE Line(FALSE, "SerialException", {}, DeviceMem)

\* _probe_once after the client is constructed: data = read_all(cli, regs,
\* endianness); name = probe_reg['name']; val = data.get(name); the test of
\* val; False on any exception.
ProbeRead(ps, c, e, probe_reg) ==
    LET data == read_all(c, LineOf(ps, c), <<probe_reg>>, e)
    IN  IF data.exc # "" THEN FALSE
        ELSE IF "name" \notin probe_reg.keys THEN FALSE
        ELSE ~IsErrStr(DictGet(data.out, probe_reg.name))

\* _probe_once(port, baud, parity, slave_id, endianness, probe_reg) with the
\* serial environment unchanged during the call
_probe_once(ps, port, baud, parity, e, probe_reg) ==
    LET c == RTUClient(ps, port, baud, parity)
    IN  IF c.exc # "" THEN FALSE ELSE ProbeRead(ps, c.cli, e, probe_reg)

\* cfg.get('probe') or cfg['registers'][0]
HasProbe(cfgp, rs) == cfgp.keys # {} \/ rs # <<>>
ProbeOf(cfgp, rs) == IF cfgp.keys # {} THEN cfgp ELSE rs[1]

\* Mutant: the rates in ascending order.
PortCandidates_ascending(port) ==
    [k \in 1..(Len(COMMON_PARITIES) * Len(COMMON_BAUDS)) |->
        Client(port,
               COMMON_BAUDS[Len(COMMON_BAUDS) - ((k - 1) % Len(COMMON_BAUDS))],
               COMMON_PARITIES[((k - 1) \div Len(COMMON_BAUDS)) + 1])]

\* for parity in COMMON_PARITIES: for baud in COMMON_BAUDS, on one port
PortCandidates(port) ==
    [k \in 1..(Len(COMMON_PARITIES) * Len(COMMON_BAUDS)) |->
        Client(port,
               COMMON_BAUDS[((k - 1) % Len(COMMON_BAUDS)) + 1],
               COMMON_PARITIES[((k - 1) \div Len(COMMON_BAUDS)) + 1])]

\* for port in ports: ...
RECURSIVE Candidates(_)
Candidates(portSeq) ==
    IF portSeq = <<>> THEN <<>>
    ELSE PortCandidates(Head(portSeq)) \o Candidates(Tail(portSeq))

\* The scan from candidate i on: the first accepted candidate, or None.
RECURSIVE ScanFrom(_, _, _, _, _)
ScanFrom(ps, cands, e, probe_reg, i) ==
    IF i > Len(cands) THEN None
    ELSE IF _probe_once(ps, cands[i].port, cands[i].baud, cands[i].parity, e, probe_reg)
    THEN cands[i]
    ELSE ScanFrom(ps, cands, e, probe_reg, i + 1)

\* autodetect() with the serial environment unchanged during the call: the
\* exception it raises or the value it returns.
autodetect(fileOk, cfgp, rs, e, portSeq, ps) ==
    IF ~fileOk THEN [exc |-> "FileNotFoundError", det |-> None]
    ELSE IF ~HasProbe(cfgp, rs) THEN [exc |-> "IndexError", det |-> None]
    ELSE [exc |-> "", det |-> ScanFrom(ps, Candidates(portSeq), e, ProbeOf(cfgp, rs), 1)]

(***************************************************************************)
(* One scan, probe by probe (SpecScan).                                    *)
(***************************************************************************)
PortNames == <<"COM1", "COM2", "COM3", "COM4">>
AllPorts == {PortNames[i] : i \in 1..MaxPorts}

PortLists ==
    UNION { { s \in [1..k -> AllPorts] : \A i, j \in 1..k : i # j => s[i] # s[j] }
            : k \in 0..MaxPorts }

SeqRange(s) == {s[i] : i \in 1..Len(s)}

BaudSet == SeqRange(COMMON_BAUDS)

PortStates == {Port(FALSE, 0)} \cup {Port(TRUE, b) : b \in {0} \cup BaudSet}

\* 'ERR:FAULT', a label of a symbol map
ErrFaultLabel == <<69, 82, 82, 58, 70, 65, 85, 76, 84>>

ProbePool ==
    { Reg("PROBE", "uint16", 0, BaseKeys),
      Reg("F32", "float32", 0, BaseKeys),
      Reg("NOTYPE", "", 0, {"name", "address"}),
      Reg("", "uint16", 0, {"type", "address"}),
      [Reg("E", "enum16", 0, BaseKeys \cup {"map"})
          EXCEPT !.map = <<[k |-> 16706, label |-> ErrFaultLabel]>>] }

InitScan ==
    /\ \/ cfgProbe = NoProbe /\ regs \in RegLists(1)
       \/ cfgProbe \in ProbePool /\ regs = <<Reg("U16", "uint16", 0, BaseKeys)>>
    /\ endianness \in {"big", "little"}
    /\ ports \in PortLists
    /\ portState \in [SeqRange(ports) -> PortStates]
    /\ cfgOk = TRUE
    /\ found = NotFound
    /\ parityNames \in {PySerialNames, LetterNames}
    /\ envSteps = 0
    /\ AppInit
    /\ PathIdle
    /\ ReadIdle
    /\ spc = "load"
    /\ sidx = 1
    /\ probed = <<>>
    /\ det = None
    /\ scands = <<>>
    /\ sexc = ""

\* autodetect() is called.
ScanCalled ==
    /\ spc' = "load"
    /\ sidx' = 1
    /\ probed' = <<>>
    /\ det' = None
    /\ scands' = <<>>
    /\ sexc' = ""

\* autodetect() has returned or raised and the caller has taken the outcome.
ScanTaken ==
    /\ spc' = "idle"
    /\ sidx' = 1
    /\ probed' = <<>>
    /\ det' = None
    /\ scands' = <<>>
    /\ sexc' = ""

\* cfg = load_config(); ...; probe = cfg.get('probe') or cfg['registers'][0]
ScanLoad ==
    /\ spc = "load"
    /\ IF ~cfgOk THEN spc' = "raised" /\ sexc' = "FileNotFoundError"
       ELSE IF ~HasProbe(cfgProbe, regs) THEN spc' = "raised" /\ sexc' = "IndexError"
       ELSE spc' = "comports" /\ sexc' = sexc
    /\ UNCHANGED <<cfgVars, envVars, readVars, sidx, probed, det, scands, appVars,
                   pathVars>>

\* ports = [p.device for p in list_ports.comports()]
ScanComports ==
    /\ spc = "comports"
    /\ scands' = Candidates(ports)
    /\ spc' = "scan"
    /\ UNCHANGED <<cfgVars, envVars, readVars, sidx, probed, det, sexc, appVars,
                   pathVars>>

\* One turn of the innermost loop, first half: _probe_once constructs the
\* client of the next candidate; a constructor that raises ends the probe.
ScanConstruct ==
    /\ spc = "scan"
    /\ sidx <= Len(scands)
    /\ LET c == scands[sidx]
       IN  IF RTUClient(portState, c.port, c.baud, c.parity).exc # ""
           THEN /\ probed' = Append(probed, [cand |-> c, ok |-> FALSE])
                /\ sidx' = sidx + 1
                /\ spc' = "scan"
           ELSE /\ spc' = "probe"
                /\ UNCHANGED <<sidx, probed>>
    /\ UNCHANGED <<cfgVars, envVars, readVars, det, scands, sexc, appVars, pathVars>>

\* Second half, after time.sleep(0.05): the probe register is read through
\* the client; the candidate is returned if the probe accepts it.
ScanProbe ==
    /\ spc = "probe"
    /\ LET c == scands[sidx]
           ok == ProbeRead(portState, c, endianness, ProbeOf(cfgProbe, regs))
       IN  /\ probed' = Append(probed, [cand |-> c, ok |-> ok])
           /\ det' = IF ok THEN c ELSE det
           /\ spc' = IF ok THEN "done" ELSE "scan"
    /\ sidx' = sidx + 1
    /\ UNCHANGED <<cfgVars, envVars, readVars, scands, sexc, appVars, pathVars>>

\* return None
ScanExhausted ==
    /\ spc = "scan"
    /\ sidx > Len(scands)
    /\ det' = None
    /\ spc' = "done"
    /\ UNCHANGED <<cfgVars, envVars, readVars, sidx, probed, scands, sexc, appVars,
                   pathVars>>

NextScan == ScanLoad \/ ScanComports \/ ScanConstruct \/ ScanProbe \/ ScanExhausted

SpecScan == InitScan /\ [][NextScan]_vars

(***************************************************************************)
(* Claims about Discovery (SpecScan).                                      *)
(***************************************************************************)
\* The i-th candidate of the stated order: ports as reported, then parity,
\* then the rates 115200, 57600, 38400, 19200, 9600.
StatedCandidate(i) ==
    Client(ports[((i - 1) \div 5) + 1],
           <<115200, 57600, 38400, 19200, 9600>>[((i - 1) % 5) + 1],
           "N")

StatedTotal == Len(ports) * 5

TheProbe == ProbeOf(cfgProbe, regs)

CtorRaises(c) == RTUClient(portState, c.port, c.baud, c.parity).exc # ""

\* The client is built and the read issued for the probe register raises.
ProbeReadRaises(c) ==
    /\ ~CtorRaises(c)
    /\ IssuesRead(TheProbe)
    /\ read_regs(c, LineOf(portState, c), 1, Request(TheProbe)).exc # ""

\* Decoding the probe register through candidate c gives a value that is not
\* an error value: neither a failure marker nor the unsupported-type value.
DecodesWithoutError(c) ==
    /\ ~CtorRaises(c)
    /\ "name" \in TheProbe.keys
    /\ LET data == read_all(c, LineOf(portState, c), <<TheProbe>>, endianness)
       IN  /\ data.exc = ""
           /\ ~IsErrStr(DictGet(data.out, TheProbe.name))
           /\ DictGet(data.out, TheProbe.name) # Unsupported

\* C6: candidates are probed in the order ports, parities, rates; the first
\* candidate whose probe succeeds is returned and none after it is probed; a
\* candidate whose construction or read raises counts as failed and the scan
\* goes on with the next one.
C6_FirstAcceptedInOrder ==
    /\ Len(probed) <= StatedTotal
    /\ \A i \in 1..Len(probed) :
          /\ probed[i].cand = StatedCandidate(i)
          /\ probed[i].ok => i = Len(probed) /\ spc = "done" /\ det = probed[i].cand
          /\ (CtorRaises(probed[i].cand) \/ ProbeReadRaises(probed[i].cand)) =>
                /\ ~probed[i].ok
                /\ spc = "done" => (i < Len(probed) \/ i = StatedTotal)
    /\ (spc = "done" /\ det # None) =>
          /\ probed # <<>>
          /\ probed[Len(probed)].ok
          /\ det = probed[Len(probed)].cand
    /\ (spc = "done" /\ det = None) => Len(probed) = StatedTotal

\* A scan that returned a candidate of the second port after a candidate whose
\* construction raised and one whose read raised.
C6_Witness ==
    /\ spc = "done"
    /\ det # None
    /\ Len(probed) > 6
    /\ \E i, j \in 1..Len(probed) :
          CtorRaises(probed[i].cand) /\ ProbeReadRaises(probed[j].cand)

\* C7: autodetect returns None exactly when no candidate makes the probe
\* register decode without error, and then every candidate was probed once.
C7_NotFoundIffNoDecode ==
    spc = "done" =>
        /\ (det = None) <=> (\A i \in 1..StatedTotal : ~DecodesWithoutError(StatedCandidate(i)))
        /\ det = None =>
              /\ Len(probed) = StatedTotal
              /\ \A i \in 1..StatedTotal : probed[i].cand = StatedCandidate(i)

\* C8: a candidate is accepted only if decoding the probe register through
\* its transport gave a value that is not an error value.
C8_AcceptedOnlyNonError ==
    \A i \in 1..Len(probed) : probed[i].ok => DecodesWithoutError(probed[i].cand)

(***************************************************************************)
(* The write path (app_gui._on_write, modbus_client.scale_to_raw).         *)
(***************************************************************************)
\* find_reg(regs, name): the first descriptor of that name; r['name'] raises
\* KeyError on a descriptor without one, as does the end of the list.
RECURSIVE find_reg_from(_, _, _)
find_reg_from(rs, name, i) ==
    IF i > Len(rs) THEN [exc |-> "KeyError", reg |-> NoProbe]
    ELSE IF "name" \notin rs[i].keys THEN [exc |-> "KeyError", reg |-> NoProbe]
    ELSE IF rs[i].name = name THEN [exc |-> "", reg |-> rs[i]]
    ELSE find_reg_from(rs, name, i + 1)

find_reg(rs, name) == find_reg_from(rs, name, 1)

\* str.lower() of one character, from the Unicode database of the interpreter
\* (Unicode 14.0): <<a, b, step, d>> stands for c -> c + d for the code points
\* c = a, a + step, ..., b; every other code point is its own lowercase but
\* U+0130, which becomes two code points (LowerChar).
LowerRuns ==
    { <<65, 90, 1, 32>>, <<192, 214, 1, 32>>, <<216, 222, 1, 32>>, <<256, 302, 2, 1>>,
      <<306, 310, 2, 1>>, <<313, 327, 2, 1>>, <<330, 374, 2, 1>>, <<376, 376, 1, -121>>,
      <<377, 381, 2, 1>>, <<385, 385, 1, 210>>, <<386, 388, 2, 1>>, <<390, 390, 1, 206>>,
      <<391, 391, 1, 1>>, <<393, 394, 1, 205>>, <<395, 395, 1, 1>>, <<398, 398, 1, 79>>,
      <<399, 399, 1, 202>>, <<400, 400, 1, 203>>, <<401, 401, 1, 1>>, <<403, 403, 1,
      205>>, <<404, 404, 1, 207>>, <<406, 406, 1, 211>>, <<407, 407, 1, 209>>, <<408, 408,
      1, 1>>, <<412, 412, 1, 211>>, <<413, 413, 1, 213>>, <<415, 415, 1, 214>>, <<416,
      420, 2, 1>>, <<422, 422, 1, 218>>, <<423, 423, 1, 1>>, <<425, 425, 1, 218>>, <<428,
      428, 1, 1>>, <<430, 430, 1, 218>>, <<431, 431, 1, 1>>, <<433, 434, 1, 217>>, <<435,
      437, 2, 1>>, <<439, 439, 1, 219>>, <<440, 440, 1, 1>>, <<444, 444, 1, 1>>, <<452,
      452, 1, 2>>, <<453, 453, 1, 1>>, <<455, 455, 1, 2>>, <<456, 456, 1, 1>>, <<458, 458,
      1, 2>>, <<459, 475, 2, 1>>, <<478, 494, 2, 1>>, <<497, 497, 1, 2>>, <<498, 500, 2,
      1>>, <<502, 502, 1, -97>>, <<503, 503, 1, -56>>, <<504, 542, 2, 1>>, <<544, 544, 1,
      -130>>, <<546, 562, 2, 1>>, <<570, 570, 1, 10795>>, <<571, 571, 1, 1>>, <<573, 573,
      1, -163>>, <<574, 574, 1, 10792>>, <<577, 577, 1, 1>>, <<579, 579, 1, -195>>, <<580,
      580, 1, 69>>, <<581, 581, 1, 71>>, <<582, 590, 2, 1>>, <<880, 882, 2, 1>>, <<886,
      886, 1, 1>>, <<895, 895, 1, 116>>, <<902, 902, 1, 38>>, <<904, 906, 1, 37>>, <<908,
      908, 1, 64>>, <<910, 911, 1, 63>>, <<913, 929, 1, 32>>, <<931, 939, 1, 32>>, <<975,
      975, 1, 8>>, <<984, 1006, 2, 1>>, <<1012, 1012, 1, -60>>, <<1015, 1015, 1, 1>>,
      <<1017, 1017, 1, -7>>, <<1018, 1018, 1, 1>>, <<1021, 1023, 1, -130>>, <<1024, 1039,
      1, 80>>, <<1040, 1071, 1, 32>>, <<1120, 1152, 2, 1>>, <<1162, 1214, 2, 1>>, <<1216,
      1216, 1, 15>>, <<1217, 1229, 2, 1>>, <<1232, 1326, 2, 1>>, <<1329, 1366, 1, 48>>,
      <<4256, 4293, 1, 7264>>, <<4295, 4295, 1, 7264>>, <<4301, 4301, 1, 7264>>, <<5024,
      5103, 1, 38864>>, <<5104, 5109, 1, 8>>, <<7312, 7354, 1, -3008>>, <<7357, 7359, 1,
      -3008>>, <<7680, 7828, 2, 1>>, <<7838, 7838, 1, -7615>>, <<7840, 7934, 2, 1>>,
      <<7944, 7951, 1, -8>>, <<7960, 7965, 1, -8>>, <<7976, 7983, 1, -8>>, <<7992, 7999,
      1, -8>>, <<8008, 8013, 1, -8>>, <<8025, 8031, 2, -8>>, <<8040, 8047, 1, -8>>,
      <<8072, 8079, 1, -8>>, <<8088, 8095, 1, -8>>, <<8104, 8111, 1, -8>>, <<8120, 8121,
      1, -8>>, <<8122, 8123, 1, -74>>, <<8124, 8124, 1, -9>>, <<8136, 8139, 1, -86>>,
      <<8140, 8140, 1, -9>>, <<8152, 8153, 1, -8>>, <<8154, 8155, 1, -100>>, <<8168, 8169,
      1, -8>>, <<8170, 8171, 1, -112>>, <<8172, 8172, 1, -7>>, <<8184, 8185, 1, -128>>,
      <<8186, 8187, 1, -126>>, <<8188, 8188, 1, -9>>, <<8486, 8486, 1, -7517>>, <<8490,
      8490, 1, -8383>>, <<8491, 8491, 1, -8262>>, <<8498, 8498, 1, 28>>, <<8544, 8559, 1,
      16>>, <<8579, 8579, 1, 1>>, <<9398, 9423, 1, 26>>, <<11264, 11311, 1, 48>>, <<11360,
      11360, 1, 1>>, <<11362, 11362, 1, -10743>>, <<11363, 11363, 1, -3814>>, <<11364,
      11364, 1, -10727>>, <<11367, 11371, 2, 1>>, <<11373, 11373, 1, -10780>>, <<11374,
      11374, 1, -10749>>, <<11375, 11375, 1, -10783>>, <<11376, 11376, 1, -10782>>,
      <<11378, 11378, 1, 1>>, <<11381, 11381, 1, 1>>, <<11390, 11391, 1, -10815>>,
      <<11392, 11490, 2, 1>>, <<11499, 11501, 2, 1>>, <<11506, 11506, 1, 1>>, <<42560,
      42604, 2, 1>>, <<42624, 42650, 2, 1>>, <<42786, 42798, 2, 1>>, <<42802, 42862, 2,
      1>>, <<42873, 42875, 2, 1>>, <<42877, 42877, 1, -35332>>, <<42878, 42886, 2, 1>>,
      <<42891, 42891, 1, 1>>, <<42893, 42893, 1, -42280>>, <<42896, 42898, 2, 1>>,
      <<42902, 42920, 2, 1>>, <<42922, 42922, 1, -42308>>, <<42923, 42923, 1, -42319>>,
      <<42924, 42924, 1, -42315>>, <<42925, 42925, 1, -42305>>, <<42926, 42926, 1,
      -42308>>, <<42928, 42928, 1, -42258>>, <<42929, 42929, 1, -42282>>, <<42930, 42930,
      1, -42261>>, <<42931, 42931, 1, 928>>, <<42932, 42946, 2, 1>>, <<42948, 42948, 1,
      -48>>, <<42949, 42949, 1, -42307>>, <<42950, 42950, 1, -35384>>, <<42951, 42953, 2,
      1>>, <<42960, 42960, 1, 1>>, <<42966, 42968, 2, 1>>, <<42997, 42997, 1, 1>>,
      <<65313, 65338, 1, 32>>, <<66560, 66599, 1, 40>>, <<66736, 66771, 1, 40>>, <<66928,
      66938, 1, 39>>, <<66940, 66954, 1, 39>>, <<66956, 66962, 1, 39>>, <<66964, 66965, 1,
      39>>, <<68736, 68786, 1, 64>>, <<71840, 71871, 1, 32>>, <<93760, 93791, 1, 32>>,
      <<125184, 125217, 1, 34>> }

\* The case-ignorable code points (apostrophes, marks, modifier letters, ...),
\* as ranges <<a, b>>.
CaseIgnorableRanges ==
    { <<39, 39>>, <<46, 46>>, <<58, 58>>, <<94, 94>>, <<96, 96>>, <<168, 168>>, <<173,
      173>>, <<175, 175>>, <<180, 180>>, <<183, 184>>, <<688, 879>>, <<884, 885>>, <<890,
      890>>, <<900, 901>>, <<903, 903>>, <<1155, 1161>>, <<1369, 1369>>, <<1375, 1375>>,
      <<1425, 1469>>, <<1471, 1471>>, <<1473, 1474>>, <<1476, 1477>>, <<1479, 1479>>,
      <<1524, 1524>>, <<1536, 1541>>, <<1552, 1562>>, <<1564, 1564>>, <<1600, 1600>>,
      <<1611, 1631>>, <<1648, 1648>>, <<1750, 1757>>, <<1759, 1768>>, <<1770, 1773>>,
      <<1807, 1807>>, <<1809, 1809>>, <<1840, 1866>>, <<1958, 1968>>, <<2027, 2037>>,
      <<2042, 2042>>, <<2045, 2045>>, <<2070, 2093>>, <<2137, 2139>>, <<2184, 2184>>,
      <<2192, 2193>>, <<2200, 2207>>, <<2249, 2306>>, <<2362, 2362>>, <<2364, 2364>>,
      <<2369, 2376>>, <<2381, 2381>>, <<2385, 2391>>, <<2402, 2403>>, <<2417, 2417>>,
      <<2433, 2433>>, <<2492, 2492>>, <<2497, 2500>>, <<2509, 2509>>, <<2530, 2531>>,
      <<2558, 2558>>, <<2561, 2562>>, <<2620, 2620>>, <<2625, 2626>>, <<2631, 2632>>,
      <<2635, 2637>>, <<2641, 2641>>, <<2672, 2673>>, <<2677, 2677>>, <<2689, 2690>>,
      <<2748, 2748>>, <<2753, 2757>>, <<2759, 2760>>, <<2765, 2765>>, <<2786, 2787>>,
      <<2810, 2815>>, <<2817, 2817>>, <<2876, 2876>>, <<2879, 2879>>, <<2881, 2884>>,
      <<2893, 2893>>, <<2901, 2902>>, <<2914, 2915>>, <<2946, 2946>>, <<3008, 3008>>,
      <<3021, 3021>>, <<3072, 3072>>, <<3076, 3076>>, <<3132, 3132>>, <<3134, 3136>>,
      <<3142, 3144>>, <<3146, 3149>>, <<3157, 3158>>, <<3170, 3171>>, <<3201, 3201>>,
      <<3260, 3260>>, <<3263, 3263>>, <<3270, 3270>>, <<3276, 3277>>, <<3298, 3299>>,
      <<3328, 3329>>, <<3387, 3388>>, <<3393, 3396>>, <<3405, 3405>>, <<3426, 3427>>,
      <<3457, 3457>>, <<3530, 3530>>, <<3538, 3540>>, <<3542, 3542>>, <<3633, 3633>>,
      <<3636, 3642>>, <<3654, 3662>>, <<3761, 3761>>, <<3764, 3772>>, <<3782, 3782>>,
      <<3784, 3789>>, <<3864, 3865>>, <<3893, 3893>>, <<3895, 3895>>, <<3897, 3897>>,
      <<3953, 3966>>, <<3968, 3972>>, <<3974, 3975>>, <<3981, 3991>>, <<3993, 4028>>,
      <<4038, 4038>>, <<4141, 4144>>, <<4146, 4151>>, <<4153, 4154>>, <<4157, 4158>>,
      <<4184, 4185>>, <<4190, 4192>>, <<4209, 4212>>, <<4226, 4226>>, <<4229, 4230>>,
      <<4237, 4237>>, <<4253, 4253>>, <<4348, 4348>>, <<4957, 4959>>, <<5906, 5908>>,
      <<5938, 5939>>, <<5970, 5971>>, <<6002, 6003>>, <<6068, 6069>>, <<6071, 6077>>,
      <<6086, 6086>>, <<6089, 6099>>, <<6103, 6103>>, <<6109, 6109>>, <<6155, 6159>>,
      <<6211, 6211>>, <<6277, 6278>>, <<6313, 6313>>, <<6432, 6434>>, <<6439, 6440>>,
      <<6450, 6450>>, <<6457, 6459>>, <<6679, 6680>>, <<6683, 6683>>, <<6742, 6742>>,
      <<6744, 6750>>, <<6752, 6752>>, <<6754, 6754>>, <<6757, 6764>>, <<6771, 6780>>,
      <<6783, 6783>>, <<6823, 6823>>, <<6832, 6862>>, <<6912, 6915>>, <<6964, 6964>>,
      <<6966, 6970>>, <<6972, 6972>>, <<6978, 6978>>, <<7019, 7027>>, <<7040, 7041>>,
      <<7074, 7077>>, <<7080, 7081>>, <<7083, 7085>>, <<7142, 7142>>, <<7144, 7145>>,
      <<7149, 7149>>, <<7151, 7153>>, <<7212, 7219>>, <<7222, 7223>>, <<7288, 7293>>,
      <<7376, 7378>>, <<7380, 7392>>, <<7394, 7400>>, <<7405, 7405>>, <<7412, 7412>>,
      <<7416, 7417>>, <<7468, 7530>>, <<7544, 7544>>, <<7579, 7679>>, <<8125, 8125>>,
      <<8127, 8129>>, <<8141, 8143>>, <<8157, 8159>>, <<8173, 8175>>, <<8189, 8190>>,
      <<8203, 8207>>, <<8216, 8217>>, <<8228, 8228>>, <<8231, 8231>>, <<8234, 8238>>,
      <<8288, 8292>>, <<8294, 8303>>, <<8305, 8305>>, <<8319, 8319>>, <<8336, 8348>>,
      <<8400, 8432>>, <<11388, 11389>>, <<11503, 11505>>, <<11631, 11631>>, <<11647,
      11647>>, <<11744, 11775>>, <<11823, 11823>>, <<12293, 12293>>, <<12330, 12333>>,
      <<12337, 12341>>, <<12347, 12347>>, <<12441, 12446>>, <<12540, 12542>>, <<40981,
      40981>>, <<42232, 42237>>, <<42508, 42508>>, <<42607, 42610>>, <<42612, 42621>>,
      <<42623, 42623>>, <<42652, 42655>>, <<42736, 42737>>, <<42752, 42785>>, <<42864,
      42864>>, <<42888, 42890>>, <<42994, 42996>>, <<43000, 43001>>, <<43010, 43010>>,
      <<43014, 43014>>, <<43019, 43019>>, <<43045, 43046>>, <<43052, 43052>>, <<43204,
      43205>>, <<43232, 43249>>, <<43263, 43263>>, <<43302, 43309>>, <<43335, 43345>>,
      <<43392, 43394>>, <<43443, 43443>>, <<43446, 43449>>, <<43452, 43453>>, <<43471,
      43471>>, <<43493, 43494>>, <<43561, 43566>>, <<43569, 43570>>, <<43573, 43574>>,
      <<43587, 43587>>, <<43596, 43596>>, <<43632, 43632>>, <<43644, 43644>>, <<43696,
      43696>>, <<43698, 43700>>, <<43703, 43704>>, <<43710, 43711>>, <<43713, 43713>>,
      <<43741, 43741>>, <<43756, 43757>>, <<43763, 43764>>, <<43766, 43766>>, <<43867,
      43871>>, <<43881, 43883>>, <<44005, 44005>>, <<44008, 44008>>, <<44013, 44013>>,
      <<64286, 64286>>, <<64434, 64450>>, <<65024, 65039>>, <<65043, 65043>>, <<65056,
      65071>>, <<65106, 65106>>, <<65109, 65109>>, <<65279, 65279>>, <<65287, 65287>>,
      <<65294, 65294>>, <<65306, 65306>>, <<65342, 65342>>, <<65344, 65344>>, <<65392,
      65392>>, <<65438, 65439>>, <<65507, 65507>>, <<65529, 65531>>, <<66045, 66045>>,
      <<66272, 66272>>, <<66422, 66426>>, <<67456, 67461>>, <<67463, 67504>>, <<67506,
      67514>>, <<68097, 68099>>, <<68101, 68102>>, <<68108, 68111>>, <<68152, 68154>>,
      <<68159, 68159>>, <<68325, 68326>>, <<68900, 68903>>, <<69291, 69292>>, <<69446,
      69456>>, <<69506, 69509>>, <<69633, 69633>>, <<69688, 69702>>, <<69744, 69744>>,
      <<69747, 69748>>, <<69759, 69761>>, <<69811, 69814>>, <<69817, 69818>>, <<69821,
      69821>>, <<69826, 69826>>, <<69837, 69837>>, <<69888, 69890>>, <<69927, 69931>>,
      <<69933, 69940>>, <<70003, 70003>>, <<70016, 70017>>, <<70070, 70078>>, <<70089,
      70092>>, <<70095, 70095>>, <<70191, 70193>>, <<70196, 70196>>, <<70198, 70199>>,
      <<70206, 70206>>, <<70367, 70367>>, <<70371, 70378>>, <<70400, 70401>>, <<70459,
      70460>>, <<70464, 70464>>, <<70502, 70508>>, <<70512, 70516>>, <<70712, 70719>>,
      <<70722, 70724>>, <<70726, 70726>>, <<70750, 70750>>, <<70835, 70840>>, <<70842,
      70842>>, <<70847, 70848>>, <<70850, 70851>>, <<71090, 71093>>, <<71100, 71101>>,
      <<71103, 71104>>, <<71132, 71133>>, <<71219, 71226>>, <<71229, 71229>>, <<71231,
      71232>>, <<71339, 71339>>, <<71341, 71341>>, <<71344, 71349>>, <<71351, 71351>>,
      <<71453, 71455>>, <<71458, 71461>>, <<71463, 71467>>, <<71727, 71735>>, <<71737,
      71738>>, <<71995, 71996>>, <<71998, 71998>>, <<72003, 72003>>, <<72148, 72151>>,
      <<72154, 72155>>, <<72160, 72160>>, <<72193, 72202>>, <<72243, 72248>>, <<72251,
      72254>>, <<72263, 72263>>, <<72273, 72278>>, <<72281, 72283>>, <<72330, 72342>>,
      <<72344, 72345>>, <<72752, 72758>>, <<72760, 72765>>, <<72767, 72767>>, <<72850,
      72871>>, <<72874, 72880>>, <<72882, 72883>>, <<72885, 72886>>, <<73009, 73014>>,
      <<73018, 73018>>, <<73020, 73021>>, <<73023, 73029>>, <<73031, 73031>>, <<73104,
      73105>>, <<73109, 73109>>, <<73111, 73111>>, <<73459, 73460>>, <<78896, 78904>>,
      <<92912, 92916>>, <<92976, 92982>>, <<92992, 92995>>, <<94031, 94031>>, <<94095,
      94111>>, <<94176, 94177>>, <<94179, 94180>>, <<110576, 110579>>, <<110581, 110587>>,
      <<110589, 110590>>, <<113821, 113822>>, <<113824, 113827>>, <<118528, 118573>>,
      <<118576, 118598>>, <<119143, 119145>>, <<119155, 119170>>, <<119173, 119179>>,
      <<119210, 119213>>, <<119362, 119364>>, <<121344, 121398>>, <<121403, 121452>>,
      <<121461, 121461>>, <<121476, 121476>>, <<121499, 121503>>, <<121505, 121519>>,
      <<122880, 122886>>, <<122888, 122904>>, <<122907, 122913>>, <<122915, 122916>>,
      <<122918, 122922>>, <<123184, 123197>>, <<123566, 123566>>, <<123628, 123631>>,
      <<125136, 125142>>, <<125252, 125259>>, <<127995, 127999>>, <<917505, 917505>>,
      <<917536, 917631>>, <<917760, 917999>> }

\* The cased code points that are not case-ignorable, as ranges <<a, b>>.
CasedRanges ==
    { <<65, 90>>, <<97, 122>>, <<170, 170>>, <<181, 181>>, <<186, 186>>, <<192, 214>>,
      <<216, 246>>, <<248, 442>>, <<444, 447>>, <<452, 659>>, <<661, 687>>, <<880, 883>>,
      <<886, 887>>, <<891, 893>>, <<895, 895>>, <<902, 902>>, <<904, 906>>, <<908, 908>>,
      <<910, 929>>, <<931, 1013>>, <<1015, 1153>>, <<1162, 1327>>, <<1329, 1366>>, <<1376,
      1416>>, <<4256, 4293>>, <<4295, 4295>>, <<4301, 4301>>, <<4304, 4346>>, <<4349,
      4351>>, <<5024, 5109>>, <<5112, 5117>>, <<7296, 7304>>, <<7312, 7354>>, <<7357,
      7359>>, <<7424, 7467>>, <<7531, 7543>>, <<7545, 7578>>, <<7680, 7957>>, <<7960,
      7965>>, <<7968, 8005>>, <<8008, 8013>>, <<8016, 8023>>, <<8025, 8025>>, <<8027,
      8027>>, <<8029, 8029>>, <<8031, 8061>>, <<8064, 8116>>, <<8118, 8124>>, <<8126,
      8126>>, <<8130, 8132>>, <<8134, 8140>>, <<8144, 8147>>, <<8150, 8155>>, <<8160,
      8172>>, <<8178, 8180>>, <<8182, 8188>>, <<8450, 8450>>, <<8455, 8455>>, <<8458,
      8467>>, <<8469, 8469>>, <<8473, 8477>>, <<8484, 8484>>, <<8486, 8486>>, <<8488,
      8488>>, <<8490, 8493>>, <<8495, 8500>>, <<8505, 8505>>, <<8508, 8511>>, <<8517,
      8521>>, <<8526, 8526>>, <<8544, 8575>>, <<8579, 8580>>, <<9398, 9449>>, <<11264,
      11387>>, <<11390, 11492>>, <<11499, 11502>>, <<11506, 11507>>, <<11520, 11557>>,
      <<11559, 11559>>, <<11565, 11565>>, <<42560, 42605>>, <<42624, 42651>>, <<42786,
      42863>>, <<42865, 42887>>, <<42891, 42894>>, <<42896, 42954>>, <<42960, 42961>>,
      <<42963, 42963>>, <<42965, 42969>>, <<42997, 42998>>, <<43002, 43002>>, <<43824,
      43866>>, <<43872, 43880>>, <<43888, 43967>>, <<64256, 64262>>, <<64275, 64279>>,
      <<65313, 65338>>, <<65345, 65370>>, <<66560, 66639>>, <<66736, 66771>>, <<66776,
      66811>>, <<66928, 66938>>, <<66940, 66954>>, <<66956, 66962>>, <<66964, 66965>>,
      <<66967, 66977>>, <<66979, 66993>>, <<66995, 67001>>, <<67003, 67004>>, <<68736,
      68786>>, <<68800, 68850>>, <<71840, 71903>>, <<93760, 93823>>, <<119808, 119892>>,
      <<119894, 119964>>, <<119966, 119967>>, <<119970, 119970>>, <<119973, 119974>>,
      <<119977, 119980>>, <<119982, 119993>>, <<119995, 119995>>, <<119997, 120003>>,
      <<120005, 120069>>, <<120071, 120074>>, <<120077, 120084>>, <<120086, 120092>>,
      <<120094, 120121>>, <<120123, 120126>>, <<120128, 120132>>, <<120134, 120134>>,
      <<120138, 120144>>, <<120146, 120485>>, <<120488, 120512>>, <<120514, 120538>>,
      <<120540, 120570>>, <<120572, 120596>>, <<120598, 120628>>, <<120630, 120654>>,
      <<120656, 120686>>, <<120688, 120712>>, <<120714, 120744>>, <<120746, 120770>>,
      <<120772, 120779>>, <<122624, 122633>>, <<122635, 122654>>, <<125184, 125251>>,
      <<127280, 127305>>, <<127312, 127337>>, <<127344, 127369>> }

\* The capital sigma at position i is final: the nearest character before it
\* that is not case-ignorable is cased, and the nearest one after it, if
\* any, is not.
FinalSigma(t, i) ==
    LET CaseIgnorable(c) == \E r \in CaseIgnorableRanges : r[1] <= c /\ c <= r[2]
        Cased(c) == \E r \in CasedRanges : r[1] <= c /\ c <= r[2]
        before == {j \in 1..(i - 1) : ~CaseIgnorable(t[j])}
        after == {j \in (i + 1)..Len(t) : ~CaseIgnorable(t[j])}
        last == CHOOSE j \in before : \A k \in before : k <= j
        next == CHOOSE j \in after : \A k \in after : j <= k
    IN  /\ before # {} /\ Cased(t[last])
        /\ after = {} \/ ~Cased(t[next])

\* The lowercase of the character at position i of t: one code point, or two
\* for U+0130; U+03A3 becomes U+03C2 where it is final and U+03C3 elsewhere.
LowerChar(t, i) ==
    LET c == t[i]
        runs == {r \in LowerRuns : r[1] <= c /\ c <= r[2] /\ (c - r[1]) % r[3] = 0}
    IN  IF c = 931 THEN <<IF FinalSigma(t, i) THEN 962 ELSE 963>>
        ELSE IF c = 304 THEN <<105, 775>>
        ELSE IF runs # {} THEN <<c + (CHOOSE r \in runs : TRUE)[4]>>
        ELSE <<c>>

\* text.lower(): the lowercase of every character, in order
Lower(t) ==
    LET from[i \in 1..(Len(t) + 1)] ==
            IF i > Len(t) THEN <<>> ELSE LowerChar(t, i) \o from[i + 1]
    IN  from[1]

\* ("1", "true", "on", "yes")
TruthyTexts == {<<49>>, <<116, 114, 117, 101>>, <<111, 110>>, <<121, 101, 115>>}

\* round(a / b) for integers a and b # 0: to the nearest, ties to even
RoundDiv(a, b) ==
    LET n == IF b < 0 THEN -a ELSE a
        d == IF b < 0 THEN -b ELSE b
        qt == n \div d
        rm == n % d
    IN  IF 2 * rm < d THEN qt
        ELSE IF 2 * rm > d THEN qt + 1
        ELSE IF qt % 2 = 0 THEN qt ELSE qt + 1

\* A float: the finite number m / 10^k, an infinity (m its sign) or NaN.
Fin(m, k) == [kind |-> "fin", m |-> m, k |-> k]
Inf(sign) == [kind |-> "inf", m |-> sign, k |-> 0]
NaN == [kind |-> "nan", m |-> 0, k |-> 0]

Pow10(n) ==
    LET p[i \in 0..n] == IF i = 0 THEN 1 ELSE 10 * p[i - 1]
    IN  p[n]

\* a < b for floats: false when either is NaN
Lt(a, b) ==
    /\ a.kind # "nan"
    /\ b.kind # "nan"
    /\ IF a.kind = "inf" THEN a.m < 0 /\ ~(b.kind = "inf" /\ b.m < 0)
       ELSE IF b.kind = "inf" THEN b.m > 0
       ELSE a.m * Pow10(b.k) < b.m * Pow10(a.k)

\* round(x) and int(round(x / scale)): ValueError for NaN, OverflowError
\* for an infinity
scale_to_raw(val, reg) ==
    LET d == IF ScaleOf(reg) # 0 THEN ScaleOf(reg) ELSE 1
    IN  IF val.kind = "nan" THEN [exc |-> "ValueError", v |-> 0]
        ELSE IF val.kind = "inf" THEN [exc |-> "OverflowError", v |-> 0]
        ELSE [exc |-> "", v |-> RoundDiv(val.m, Pow10(val.k) * d)]

\* int(x) of a float x: towards zero; ValueError for NaN, OverflowError
\* for an infinity
int(x) ==
    IF x.kind = "nan" THEN [exc |-> "ValueError", v |-> 0]
    ELSE IF x.kind = "inf" THEN [exc |-> "OverflowError", v |-> 0]
    ELSE [exc |-> "", v |-> IF x.m >= 0 THEN x.m \div Pow10(x.k)
                            ELSE 0 - ((0 - x.m) \div Pow10(x.k))]

\* inv = {str(v).lower(): int(k) for k, v in reg['map'].items()}: the key of
\* the last entry whose label is the text
InvHas(m, t) == \E i \in 1..Len(m) : Lower(m[i].label) = t
InvGet(m, t) ==
    m[CHOOSE i \in 1..Len(m) :
        /\ Lower(m[i].label) = t
        /\ \A j \in (i + 1)..Len(m) : Lower(m[j].label) # t].k

\* max(a, b) and min(a, b) of Python: the first argument, unless the second
\* is greater (less); a NaN is neither
Max(a, b) == IF Lt(a, b) THEN b ELSE a
\* Mutant: no upper clamp.
Min_unclamped(a, b) == b

Min(a, b) == IF Lt(b, a) THEN b ELSE a

\* str.strip(): the characters str.isspace() holds for are dropped at both
\* ends
Whitespace ==
    {9, 10, 11, 12, 13, 28, 29, 30, 31, 32, 133, 160, 5760} \cup (8192..8202)
        \cup {8232, 8233, 8239, 8287, 12288}
Strip(s) == LStrip(RStrip(s, Whitespace), Whitespace)

\* The digit zero of every run of ten decimal digits of Unicode 14.0
DigitZeros ==
    { 48, 1632, 1776, 1984, 2406, 2534, 2662, 2790, 2918, 3046, 3174, 3302,
      3430, 3558, 3664, 3792, 3872, 4160, 4240, 6112, 6160, 6470, 6608,
      6784, 6800, 6992, 7088, 7232, 7248, 42528, 43216, 43264, 43472,
      43504, 43600, 44016, 65296, 66720, 68912, 69734, 69872, 69942, 70096,
      70384, 70736, 70864, 71248, 71360, 71472, 71904, 72016, 72784, 73040,
      73120, 92768, 92864, 93008, 120782, 120792, 120802, 120812, 120822,
      123200, 123632, 125264, 130032 }

\* The double nearest to sign * m0 / 10^k0 for an integer m0 >= 0 of up to 9
\* digits (the integers of the model have 32 bits): an infinity from
\* 1.8e308 on, zero up to 2.47e-324, the number itself in between.
Decimal(sign, m0, k0) ==
    LET nd == CHOOSE n \in 1..9 : m0 < Pow10(n) /\ (n = 1 \/ m0 >= Pow10(n - 1))
        top == nd - 1 - k0
        lead == m0 * Pow10(9 - nd)
        zeros == CHOOSE j \in 0..k0 :
                    /\ m0 % Pow10(j) = 0
                    /\ j = k0 \/ m0 % Pow10(j + 1) # 0
    IN  IF m0 = 0 THEN Fin(0, 0)
        ELSE IF top > 308 \/ (top = 308 /\ lead > 179769313) THEN Inf(sign)
        ELSE IF top < 0 - 324 \/ (top = 0 - 324 /\ lead <= 247032822) THEN Fin(0, 0)
        ELSE IF k0 <= 0 THEN Fin(sign * m0 * Pow10(0 - k0), 0)
        ELSE Fin(sign * (m0 \div Pow10(zeros)), k0 - zeros)

\* float() of the digits and the point before the exponent (mant) and the
\* characters after the 'e' (ex, when hasExp): digits with at most one
\* point and at least one digit, and a sign and digits in the exponent
ParseDecimal(sign, mant, hasExp, ex) ==
    LET AllDigits(x) == \A i \in DOMAIN x : x[i] \in 48..57
        Value(x) ==
            LET val[i \in 0..Len(x)] ==
                    IF i = 0 THEN 0 ELSE 10 * val[i - 1] + (x[i] - 48)
            IN  val[Len(x)]
        dots == {i \in DOMAIN mant : mant[i] = 46}
        dpos == IF dots = {} THEN Len(mant) + 1 ELSE CHOOSE i \in dots : TRUE
        ip == SubSeq(mant, 1, dpos - 1)
        fp == SubSeq(mant, dpos + 1, Len(mant))
        exsigned == ex # <<>> /\ ex[1] \in {43, 45}
        exd == IF exsigned THEN Tail(ex) ELSE ex
    IN  IF /\ Cardinality(dots) <= 1
           /\ AllDigits(ip) /\ AllDigits(fp) /\ Len(ip) + Len(fp) > 0
           /\ hasExp => (exd # <<>> /\ AllDigits(exd))
        THEN [exc |-> "",
              v |-> Decimal(sign, Value(ip \o fp),
                            Len(fp) - (IF exsigned /\ ex[1] = 45 THEN 0 - Value(exd)
                                       ELSE Value(exd)))]
        ELSE [exc |-> "ValueError", v |-> NaN]

\* float() of what follows the sign: 'inf', 'infinity' or 'nan' in any
\* case, or a decimal number with an exponent after the first 'e' or 'E'
ParseNumber(sign, body) ==
    LET low == [i \in DOMAIN body |->
                   IF body[i] \in 65..90 THEN body[i] + 32 ELSE body[i]]
        es == {i \in DOMAIN body : body[i] \in {69, 101}}
        epos == IF es = {} THEN Len(body) + 1
                ELSE CHOOSE i \in es : \A j \in es : i <= j
    IN  IF low \in {<<105, 110, 102>>, <<105, 110, 102, 105, 110, 105, 116, 121>>}
        THEN [exc |-> "", v |-> Inf(sign)]
        ELSE IF low = <<110, 97, 110>> THEN [exc |-> "", v |-> NaN]
        ELSE ParseDecimal(sign, SubSeq(body, 1, epos - 1), es # {},
                          SubSeq(body, epos + 1, Len(body)))

\* float() of an ASCII str without white space at its ends: an underscore
\* stands between two digits and is dropped, a sign may come first
ParseFloat(u) ==
    LET d == SelectSeq(u, LAMBDA c : c # 95)
    IN  IF \/ u = <<>>
           \/ \E i \in DOMAIN u :
                 /\ u[i] = 95
                 /\ ~(/\ i > 1 /\ i < Len(u)
                      /\ u[i - 1] \in 48..57 /\ u[i + 1] \in 48..57)
        THEN [exc |-> "ValueError", v |-> NaN]
        ELSE ParseNumber(IF d[1] = 45 THEN 0 - 1 ELSE 1,
                         IF d[1] \in {43, 45} THEN Tail(d) ELSE d)

\* float(s) of a str: when the str is not ASCII its code points above 126
\* become a space (white space), their digit (a decimal digit) or '?';
\* then the ASCII white space at both ends is dropped.
float(s) ==
    LET ToAscii(c) ==
            IF c < 127 THEN c
            ELSE IF c \in Whitespace THEN 32
            ELSE IF \E z \in DigitZeros : c \in z..(z + 9)
            THEN 48 + (c - (CHOOSE z \in DigitZeros : c \in z..(z + 9)))
            ELSE 63
        a == IF \A i \in DOMAIN s : s[i] < 128 THEN s
             ELSE [i \in DOMAIN s |-> ToAscii(s[i])]
    IN  ParseFloat(LStrip(RStrip(a, {9, 10, 11, 12, 13, 32}), {9, 10, 11, 12, 13, 32}))

\* The q in 1..99 for which the double nearest to (2q + 1) / 200 lies above
\* it, so that f"{v:.2f}" of it is (q + 1) / 100 and not q / 100.
HalfUp ==
    { 2, 3, 5, 6, 8, 9, 11, 13, 16, 19, 22, 25, 26, 27, 31, 32, 33, 37, 38,
      39, 40, 44, 45, 46, 50, 51, 52, 53, 54, 55, 63, 64, 65, 66, 67, 68,
      75, 76, 77, 78, 79, 80, 87, 88, 89, 90, 91, 92, 93 }

\* f"{v:.2f}" of a float v >= 0: an integer, a number with up to two
\* decimals, or a number of 0.01 to 1.00 with more
Fmt2(v) ==
    LET h == IF v.k <= 2 THEN v.m * Pow10(2 - v.k)
             ELSE LET unit == Pow10(v.k - 2)
                      qt == v.m \div unit
                      rm == v.m % unit
                  IN  IF 2 * rm < unit THEN qt
                      ELSE IF 2 * rm > unit THEN qt + 1
                      ELSE IF qt \in HalfUp THEN qt + 1 ELSE qt
    IN  DecChars(h \div 100) \o <<46, 48 + ((h % 100) \div 10), 48 + (h % 10)>>

\* "AlphaValue" in reg_name, for the names of param_defs
AlphaValueField(name) == name \in {"CH1_AlphaValue_x100", "CH2_AlphaValue_x100"}

\* sync_widgets, the write trace of the variable of an AlphaValue field,
\* with the text t in the variable: a text float() parses is clamped to
\* [0.01, 1.00] and put back into the spin box as f"{v:.2f}" ('nan' for a
\* NaN, which passes both tests), and sl.set(v) runs the scale's command,
\* which is _commit; any other text is left alone.
sync_widgets(t) ==
    LET show(f) ==
            IF f.exc # "" THEN t
            ELSE IF f.v.kind = "nan" THEN <<110, 97, 110>>
            ELSE Fmt2(IF Lt(f.v, Fin(1, 2)) THEN Fin(1, 2)
                      ELSE IF Lt(Fin(1, 0), f.v) THEN Fin(1, 0)
                      ELSE f.v)
    IN  show(float(t))

\* text = var.get().strip() in _commit, after t was written to the variable
\* of the field of that name
commit_text(name, t) == Strip(IF AlphaValueField(name) THEN sync_widgets(t) ELSE t)

\* _on_write up to the call of write_u16: the exception raised, or the
\* address and the raw value handed to write_u16.
on_write(rs, reg_name, text) ==
    LET f == find_reg(rs, reg_name)
        reg == f.reg
        fail(kind) == [exc |-> kind, addr |-> 0, iv |-> 0]
        send(iv) == IF "address" \in reg.keys
                    THEN [exc |-> "", addr |-> reg.address, iv |-> iv]
                    ELSE fail("KeyError")
        \* an exception, or the integer handed on
        pass(res) == IF res.exc # "" THEN fail(res.exc) ELSE send(res.v)
        \* iv = int(float(text))
        label(fl) == IF fl.exc # "" THEN fail(fl.exc) ELSE pass(int(fl.v))
        \* fv = float(text), the two clamps, iv = scale_to_raw(fv, reg)
        clamp(v) == Min(Fin(reg.max, 0),
                        IF "min" \in reg.keys THEN Max(Fin(reg.min, 0), v) ELSE v)
        number(fl) ==
            IF fl.exc # "" THEN fail(fl.exc)
            ELSE IF "max" \in reg.keys THEN pass(scale_to_raw(clamp(fl.v), reg))
            ELSE IF "min" \in reg.keys
            THEN pass(scale_to_raw(Max(Fin(reg.min, 0), fl.v), reg))
            ELSE pass(scale_to_raw(fl.v, reg))
    IN  IF f.exc # "" THEN fail(f.exc)
        ELSE IF "type" \in reg.keys /\ reg.type = "enum16" /\ "map" \in reg.keys
        THEN IF InvHas(reg.map, Lower(text)) THEN send(InvGet(reg.map, Lower(text)))
             ELSE label(float(text))
        ELSE IF "type" \notin reg.keys THEN fail("KeyError")
        ELSE IF reg.type = "bool16"
        THEN send(IF Lower(text) \in TruthyTexts THEN 1 ELSE 0)
        ELSE number(float(text))

(***************************************************************************)
(* The worker loop, the UI thread and the serial environment (Spec).       *)
(***************************************************************************)
\* param_defs: the register names of the settings panel, row by row.
param_defs ==
    << "CH1_OscillatorSelect", "CH2_OscillatorSelect",
       "CH1_Window_ms", "CH2_Window_ms",
       "CH1_FIFO_FilterSize", "CH2_FIFO_FilterSize",
       "CH1_AlphaFiltering_ON", "CH2_AlphaFiltering_ON",
       "CH1_AlphaValue_x100", "CH2_AlphaValue_x100",
       "CH1_Density", "CH2_Density",
       "CH1_ZFactor", "CH2_ZFactor",
       "CH1_ToolingFactor_x1000", "CH2_ToolingFactor_x1000" >>

\* A register map that names every field of the panel: the window register
\* first, then the oscillator selector of channel 1, then the other fields,
\* described with a type read_all does not decode (it stores 'UNSUPPORTED'
\* for them and reads nothing).
WindowReg == Reg("CH1_Window_ms", "uint16", 0, BaseKeys)
SettingsNames ==
    <<"CH1_Window_ms">> \o SelectSeq(param_defs, LAMBDA n : n # "CH1_Window_ms")
SettingsReg(i) ==
    LET name == SettingsNames[i]
        addr == (i - 1) % Len(DeviceMem)
    IN  IF i = 1 THEN WindowReg
        ELSE IF name = "CH1_OscillatorSelect"
        THEN [Reg(name, "enum16", addr, BaseKeys \cup {"map"}) EXCEPT !.map = OscMap]
        ELSE Reg(name, "uint64", addr, BaseKeys)
SettingsRegs == [i \in 1..Len(SettingsNames) |-> SettingsReg(i)]

\* The register maps of the running application: the settings map, alone and
\* followed by a descriptor with neither name nor type (load_cfg checks
\* nothing, and find_reg meets every settings register before it).
NamelessReg == Reg("", "", 1, {"address"})
PollMaps == { SettingsRegs, SettingsRegs \o <<NamelessReg>> }

\* App.__init__ -> _build_ui -> SettingsPanel._build: _make_field looks up
\* every name of param_defs with find_reg; an exception leaves __init__
\* before the worker thread is started.
BuildUiOk(rs) == \A i \in 1..Len(param_defs) : find_reg(rs, param_defs[i]).exc = ""

\* The field edited in the model, a free-text entry, and the texts typed
\* into it before Return: '150', 'abc'
ParamNames == {"CH1_Density"}
WriteTexts == {<<49, 53, 48>>, <<97, 98, 99>>}

\* What the one serial port of this specification can be: absent, present
\* and held by another program, present with nothing answering, present with
\* the instrument answering at 9600.
PollEnvs ==
    { [ports |-> <<>>, st |-> Port(FALSE, 0)],
      [ports |-> <<"COM1">>, st |-> Port(FALSE, 0)],
      [ports |-> <<"COM1">>, st |-> Port(TRUE, 0)],
      [ports |-> <<"COM1">>, st |-> Port(TRUE, COMMON_BAUDS[5])] }

\* Queue events.
StatusConnected(d) ==
    [kind |-> "status", text |-> "Connected", who |-> d, exc |-> "", values |-> <<>>]
StatusDisconnected(kind) ==
    [kind |-> "status", text |-> "Disconnected", who |-> None, exc |-> kind, values |-> <<>>]
DataEvent(vals) ==
    [kind |-> "data", text |-> "", who |-> None, exc |-> "", values |-> vals]

ReadOp(req) == [op |-> "read", addr |-> req.addr, value |-> req.count]
WriteOp(addr, iv) == [op |-> "write", addr |-> addr, value |-> iv]

\* Mutant: a handler for transport errors only.
Catches_transport(kind) == kind \in TransportErrors

\* except Exception: every exception of the model but KeyboardInterrupt is
\* an Exception.
Catches(kind) == kind # "KeyboardInterrupt"

Init ==
    /\ regs \in PollMaps
    /\ BuildUiOk(regs)
    /\ endianness = "big"
    /\ cfgProbe = NoProbe
    /\ \E e \in PollEnvs : ports = e.ports /\ portState = [p \in {"COM1"} |-> e.st]
    /\ cfgOk = TRUE
    /\ parityNames \in {PySerialNames, LetterNames}
    /\ envSteps = 0
    /\ found = autodetect(cfgOk, cfgProbe, regs, endianness, ports, portState)
    /\ ReadIdle
    /\ ScanIdle
    /\ AppInit
    /\ PathIdle

idleVars == <<cfgVars, line, rpc, rexc, scanVars, pathVars>>

\* An exception raised in the try block with the turn's record so far: to
\* the handler, or out of the thread.
Raised(kind, record) ==
    /\ wexc' = kind
    /\ wpc' = IF Catches(kind) THEN "except" ELSE "crashed"
    /\ iter' = IF Catches(kind) THEN Append(record, "caught") ELSE record

\* while not self._stop.is_set()
WWhileExit ==
    /\ wpc = "while"
    /\ stop
    /\ wpc' = "exited"
    /\ UNCHANGED <<idleVars, envVars, ri, rout, reads, connected, cli, q, stop,
                   wdet, wexc, uiVars, wire, produced, iter>>

\* Mutant: a loop that does not look at the stop event.
WWhile_unstoppable ==
    /\ wpc = "while"
    /\ Len(produced) < MaxEvents
    /\ wpc' = "if"
    /\ iter' = <<>>
    /\ UNCHANGED <<idleVars, envVars, ri, rout, reads, connected, cli, q, stop,
                   wdet, wexc, uiVars, wire, produced>>

WWhile ==
    /\ wpc = "while"
    /\ ~stop
    /\ Len(produced) < MaxEvents
    /\ wpc' = "if"
    /\ iter' = <<>>
    /\ UNCHANGED <<idleVars, envVars, ri, rout, reads, connected, cli, q, stop,
                   wdet, wexc, uiVars, wire, produced>>

\* if not self.connected
WIf ==
    /\ wpc = "if"
    /\ wpc' = IF ~connected THEN "autodetect" ELSE "read_all"
    /\ UNCHANGED <<idleVars, envVars, ri, rout, reads, connected, cli, q, stop,
                   wdet, wexc, uiVars, wire, produced, iter>>

\* det = autodetect(): the call is entered.
WAutodetect ==
    /\ wpc = "autodetect"
    /\ wpc' = "scanning"
    /\ ScanCalled
    /\ UNCHANGED <<cfgVars, line, rpc, rexc, pathVars, envVars, ri, rout, reads,
                   connected, cli, q, stop, wdet, wexc, uiVars, wire, produced, iter>>

\* autodetect() raises, or returns: if det: ... else: ...
WScanReturn ==
    /\ wpc = "scanning"
    /\ spc \in {"done", "raised"}
    /\ IF spc = "raised" THEN Raised(sexc, iter) /\ wdet' = wdet
       ELSE /\ wdet' = det
            /\ wpc' = IF det = None THEN "sleep_scan" ELSE "construct"
            /\ UNCHANGED <<wexc, iter>>
    /\ ScanTaken
    /\ UNCHANGED <<cfgVars, line, rpc, rexc, pathVars, envVars, ri, rout, reads,
                   connected, cli, q, stop, uiVars, wire, produced>>

\* self.cli = RTUClient(port, baud, self.slave, parity=parity)
WConstruct ==
    /\ wpc = "construct"
    /\ LET c == RTUClient(portState, wdet.port, wdet.baud, wdet.parity)
       IN  IF c.exc # "" THEN Raised(c.exc, iter) /\ cli' = cli
           ELSE /\ cli' = c.cli
                /\ wpc' = "set_connected"
                /\ UNCHANGED <<wexc, iter>>
    /\ UNCHANGED <<idleVars, envVars, ri, rout, reads, connected, q, stop,
                   wdet, uiVars, wire, produced>>

\* self.connected = True
WSetConnected ==
    /\ wpc = "set_connected"
    /\ connected' = TRUE
    /\ iter' = IF connected THEN iter ELSE Append(iter, "up")
    /\ wpc' = "put_connected"
    /\ UNCHANGED <<idleVars, envVars, ri, rout, reads, cli, q, stop,
                   wdet, wexc, uiVars, wire, produced>>

\* self.q.put(("status", f"Connected: ..."))
WPutConnected ==
    /\ wpc = "put_connected"
    /\ q' = Append(q, StatusConnected(wdet))
    /\ produced' = Append(produced, StatusConnected(wdet))
    /\ iter' = Append(iter, "status")
    /\ wpc' = "while"
    /\ UNCHANGED <<idleVars, envVars, ri, rout, reads, connected, cli, stop,
                   wdet, wexc, uiVars, wire>>

\* Mutant: a loop that gives up when Discovery finds nothing.
WSleepScan_giveUp ==
    /\ wpc = "sleep_scan"
    /\ wpc' = "exited"
    /\ UNCHANGED <<idleVars, envVars, ri, rout, reads, connected, cli, q, stop,
                   wdet, wexc, uiVars, wire, produced, iter>>

\* time.sleep(SCAN_INTERVAL_SEC); continue
WSleepScan ==
    /\ wpc = "sleep_scan"
    /\ wpc' = "while"
    /\ UNCHANGED <<idleVars, envVars, ri, rout, reads, connected, cli, q, stop,
                   wdet, wexc, uiVars, wire, produced, iter>>

\* values = read_all(self.cli, self.regs, self.endianness): out = {}
WReadAll ==
    /\ wpc = "read_all"
    /\ ri' = 1
    /\ rout' = <<>>
    /\ reads' = <<>>
    /\ wpc' = "for"
    /\ UNCHANGED <<idleVars, envVars, connected, cli, q, stop,
                   wdet, wexc, uiVars, wire, produced, iter>>

\* The descriptor's read is on the wire: client.read_regs(...) has been
\* called and has not returned.
WReadIssue ==
    /\ wpc = "for"
    /\ ri <= Len(regs)
    /\ IssuesRead(regs[ri])
    /\ cli # None
    /\ wire' = wire \cup {ReadOp(Request(regs[ri]))}
    /\ reads' = Append(reads, Request(regs[ri]))
    /\ wpc' = "read_regs"
    /\ UNCHANGED <<idleVars, envVars, ri, rout, connected, cli, q, stop,
                   wdet, wexc, uiVars, produced, iter>>

\* The outcome of the descriptor at position ri stored in out, or the
\* exception that escapes read_all.
ReadOutcome(record) ==
    LET ln == LineOf(portState, cli)
        one == read_one(cli, ln, ri, regs[ri], endianness, rout)
    IN  IF one.exc # ""
        THEN Raised(one.exc, record) /\ UNCHANGED <<ri, rout>>
        ELSE /\ rout' = one.out
             /\ ri' = ri + 1
             /\ wpc' = "for"
             /\ wexc' = wexc
             /\ iter' = record

\* read_regs returns or raises; the descriptor's outcome is stored.
WReadReturn ==
    /\ wpc = "read_regs"
    /\ wire' = wire \ {ReadOp(Request(regs[ri]))}
    /\ LET res == read_regs(cli, LineOf(portState, cli), ri, Request(regs[ri]))
       IN  ReadOutcome(IF res.exc # "" THEN Append(iter, "readfail") ELSE iter)
    /\ UNCHANGED <<idleVars, envVars, reads, connected, cli, q, stop,
                   wdet, uiVars, produced>>

\* A descriptor whose outcome needs no read (no type, no address, a type
\* outside the families) or no client.
WNoRead ==
    /\ wpc = "for"
    /\ ri <= Len(regs)
    /\ ~(IssuesRead(regs[ri]) /\ cli # None)
    /\ ReadOutcome(iter)
    /\ UNCHANGED <<idleVars, envVars, reads, connected, cli, q, stop,
                   wdet, uiVars, wire, produced>>

\* return out
WReadAllReturn ==
    /\ wpc = "for"
    /\ ri > Len(regs)
    /\ wpc' = "put_data"
    /\ iter' = Append(iter, "pass")
    /\ UNCHANGED <<idleVars, envVars, ri, rout, reads, connected, cli, q, stop,
                   wdet, wexc, uiVars, wire, produced>>

\* self.q.put(("data", (t, values)))
WPutData ==
    /\ wpc = "put_data"
    /\ q' = Append(q, DataEvent(rout))
    /\ produced' = Append(produced, DataEvent(rout))
    /\ iter' = Append(iter, IF connected THEN "data" ELSE "data_disconnected")
    /\ wpc' = "sleep_sample"
    /\ UNCHANGED <<idleVars, envVars, ri, rout, reads, connected, cli, stop,
                   wdet, wexc, uiVars, wire>>

\* time.sleep(SAMPLE_PERIOD_SEC)
WSleepSample ==
    /\ wpc = "sleep_sample"
    /\ wpc' = "while"
    /\ UNCHANGED <<idleVars, envVars, ri, rout, reads, connected, cli, q, stop,
                   wdet, wexc, uiVars, wire, produced, iter>>

\* Mutant: the handler drops the client with the flag still raised.
WExcept_clientFirst ==
    /\ wpc = "except"
    /\ cli' = None
    /\ wpc' = "except_cli"
    /\ UNCHANGED <<idleVars, envVars, ri, rout, reads, connected, q, stop,
                   wdet, wexc, uiVars, wire, produced, iter>>

\* except Exception as e: self.connected = False
WExcept ==
    /\ wpc = "except"
    /\ connected' = FALSE
    /\ iter' = IF connected THEN Append(iter, "down") ELSE iter
    /\ wpc' = "except_cli"
    /\ UNCHANGED <<idleVars, envVars, ri, rout, reads, cli, q, stop,
                   wdet, wexc, uiVars, wire, produced>>

\* self.cli = None
WExceptCli ==
    /\ wpc = "except_cli"
    /\ cli' = None
    /\ wpc' = "except_put"
    /\ UNCHANGED <<idleVars, envVars, ri, rout, reads, connected, q, stop,
                   wdet, wexc, uiVars, wire, produced, iter>>

\* Mutant: the notification goes to the head of the queue.
WExceptPut_front ==
    /\ wpc = "except_put"
    /\ q' = <<StatusDisconnected(wexc)>> \o q
    /\ produced' = Append(produced, StatusDisconnected(wexc))
    /\ iter' = Append(iter, "status")
    /\ wpc' = "except_sleep"
    /\ UNCHANGED <<idleVars, envVars, ri, rout, reads, connected, cli, stop,
                   wdet, wexc, uiVars, wire>>

\* self.q.put(("status", f"Disconnected: {type(e).__name__}. ..."))
WExceptPut ==
    /\ wpc = "except_put"
    /\ q' = Append(q, StatusDisconnected(wexc))
    /\ produced' = Append(produced, StatusDisconnected(wexc))
    /\ iter' = Append(iter, "status")
    /\ wpc' = "except_sleep"
    /\ UNCHANGED <<idleVars, envVars, ri, rout, reads, connected, cli, stop,
                   wdet, wexc, uiVars, wire>>

\* time.sleep(SCAN_INTERVAL_SEC)
WExceptSleep ==
    /\ wpc = "except_sleep"
    /\ wpc' = "while"
    /\ UNCHANGED <<idleVars, envVars, ri, rout, reads, connected, cli, q, stop,
                   wdet, wexc, uiVars, wire, produced, iter>>

\* _ui_tick: one event taken from the queue and applied.  On a data event
\* settings.sync_values writes the values to the variables of the fields; an
\* AlphaValue field holds no number under the maps of this specification
\* ('UNSUPPORTED'), so that sync_widgets returns and nothing is committed.
UiTick ==
    /\ upc = "mainloop"
    /\ q # <<>>
    /\ q' = Tail(q)
    /\ IF Head(q).kind = "status"
       THEN /\ statusVar' = IF Head(q).text = "Connected" THEN "Connected"
                            ELSE "Disconnected"
            /\ widgetsOn' = widgetsOn
       ELSE /\ widgetsOn' = (connected /\ cli # None)
            /\ statusVar' = statusVar
    /\ UNCHANGED <<idleVars, envVars, ri, rout, reads, connected, cli, stop,
                   workerVars, upc, ureq, wire, produced, iter>>

\* _force_scan ('Scan now'): self.status_var.set("Scanning COM ports…")
UiForceScan ==
    /\ upc = "mainloop"
    /\ statusVar' = "Scanning"
    /\ UNCHANGED <<idleVars, envVars, ri, rout, reads, connected, cli, q, stop,
                   workerVars, upc, ureq, widgetsOn, wire, produced, iter>>

\* Mutant: the widgets of the panel take the user's input from the start.
UiCommit_ungated ==
    /\ upc = "mainloop"
    /\ connected /\ cli # None
    /\ \E name \in ParamNames, text \in WriteTexts :
          ureq' = [name |-> name, text |-> commit_text(name, text)]
    /\ upc' = "on_write"
    /\ UNCHANGED <<idleVars, envVars, ri, rout, reads, connected, cli, q, stop,
                   workerVars, statusVar, widgetsOn, wire, produced, iter>>

\* The user commits a field: SettingsPanel._build ends with
\* set_connected(False), which disables every widget of the panel, and only
\* _ui_tick's set_connected(True) on a data event enables them; a disabled
\* widget takes neither the focus nor the user's input, so that none of the
\* bindings that call _commit fires before.  Then SettingsPanel._commit: past
\* the is_connected() test, the text read.
UiCommit ==
    /\ upc = "mainloop"
    /\ widgetsOn
    /\ connected /\ cli # None
    /\ \E name \in ParamNames, text \in WriteTexts :
          ureq' = [name |-> name, text |-> commit_text(name, text)]
    /\ upc' = "on_write"
    /\ UNCHANGED <<idleVars, envVars, ri, rout, reads, connected, cli, q, stop,
                   workerVars, statusVar, widgetsOn, wire, produced, iter>>

\* _on_write up to write_u16(self.cli, ...): an exception goes to _commit's
\* message box, otherwise the write is on the wire.
UiOnWrite ==
    /\ upc = "on_write"
    /\ LET w == on_write(regs, ureq.name, ureq.text)
       IN  IF w.exc # "" \/ cli = None
           THEN /\ upc' = "mainloop"
                /\ ureq' = NoRequest
                /\ wire' = wire
           ELSE /\ upc' = "write_u16"
                /\ ureq' = ureq
                /\ wire' = wire \cup {WriteOp(w.addr, w.iv)}
    /\ UNCHANGED <<idleVars, envVars, ri, rout, reads, connected, cli, q, stop,
                   workerVars, statusVar, widgetsOn, produced, iter>>

\* write_u16 returns or raises; either way _commit returns.
UiWriteReturn ==
    /\ upc = "write_u16"
    /\ LET w == on_write(regs, ureq.name, ureq.text)
       IN  wire' = wire \ {WriteOp(w.addr, w.iv)}
    /\ upc' = "mainloop"
    /\ ureq' = NoRequest
    /\ UNCHANGED <<idleVars, envVars, ri, rout, reads, connected, cli, q, stop,
                   workerVars, statusVar, widgetsOn, produced, iter>>

\* on_close: self._stop.set(); self.destroy()
UiClose ==
    /\ upc = "mainloop"
    /\ stop' = TRUE
    /\ upc' = "closed"
    /\ UNCHANGED <<idleVars, envVars, ri, rout, reads, connected, cli, q,
                   workerVars, ureq, statusVar, widgetsOn, wire, produced, iter>>

\* The port appears, disappears, is taken or released, the instrument is
\* plugged or unplugged.
EnvPort ==
    /\ envSteps < MaxEnvSteps
    /\ envSteps' = envSteps + 1
    /\ \E e \in PollEnvs :
          /\ <<e.ports, e.st>> # <<ports, portState["COM1"]>>
          /\ ports' = e.ports
          /\ portState' = [p \in {"COM1"} |-> e.st]
          /\ found' = autodetect(cfgOk, cfgProbe, regs, endianness, e.ports,
                                 [p \in {"COM1"} |-> e.st])
    /\ UNCHANGED <<cfgVars, cfgOk, parityNames, readVars, scanVars, appVars, pathVars>>

\* registers.json is removed or restored.
EnvFile ==
    /\ envSteps < MaxEnvSteps
    /\ envSteps' = envSteps + 1
    /\ cfgOk' = ~cfgOk
    /\ found' = autodetect(~cfgOk, cfgProbe, regs, endianness, ports, portState)
    /\ UNCHANGED <<cfgVars, ports, portState, parityNames, readVars, scanVars, appVars,
                   pathVars>>

Worker ==
    \/ WWhileExit \/ WWhile \/ WIf
    \/ WAutodetect \/ NextScan \/ WScanReturn
    \/ WConstruct \/ WSetConnected \/ WPutConnected \/ WSleepScan
    \/ WReadAll \/ WReadIssue \/ WReadReturn \/ WNoRead \/ WReadAllReturn
    \/ WPutData \/ WSleepSample
    \/ WExcept \/ WExceptCli \/ WExceptPut \/ WExceptSleep

Ui == UiTick \/ UiForceScan \/ UiCommit \/ UiOnWrite \/ UiWriteReturn \/ UiClose

Env == EnvPort \/ EnvFile

Next == Worker \/ Ui \/ Env

Spec == Init /\ [][Next]_vars

\* The worker thread is scheduled, and every transport call and sleep returns.
SpecFair == Spec /\ WF_vars(Worker)

(***************************************************************************)
(* Claims about the poll loop (Spec).                                      *)
(***************************************************************************)
Count(record, m) == Cardinality({i \in DOMAIN record : record[i] = m})
Marked(m) == \E i \in DOMAIN iter : iter[i] = m
Last(events) == events[Len(events)]
IsStatus(ev, text) == ev.kind = "status" /\ ev.text = text
\* the worker is back at the head of its loop, iter the record of the turn
TurnEnded == wpc = "while" /\ iter # <<>>
FirstData(i) ==
    /\ i \in DOMAIN produced
    /\ produced[i].kind = "data"
    /\ \A j \in 1..(i - 1) : produced[j].kind # "data"

\* C1: a turn of the loop in which a read of the CONNECTED pass raised ends
\* with the loop DISCONNECTED, the client dropped, and a Disconnected status
\* event as the last event enqueued.
C1_TransportFailureDisconnects ==
    (TurnEnded /\ Marked("readfail")) =>
        /\ Marked("down")
        /\ ~connected
        /\ cli = None
        /\ produced # <<>>
        /\ IsStatus(Last(produced), "Disconnected")

\* C2: the first data event is the second event enqueued, the one before it
\* is the connect notification, and the loop is CONNECTED when it is enqueued.
C2_OneStatusBeforeFirstData ==
    /\ ~Marked("data_disconnected")
    /\ \A i \in DOMAIN produced :
          FirstData(i) => i = 2 /\ IsStatus(produced[1], "Connected")

\* C5: at most one read or write is in flight on the connection.
C5_OneInFlight == Cardinality(wire) <= 1

\* C9: the worker never dies of an exception: it loops, or it has exited
\* with the stop signal set; and a turn in which the handler ran ends
\* DISCONNECTED with the client dropped.
C9_NoFailureEscapes ==
    /\ wpc # "crashed"
    /\ wpc = "exited" => stop
    /\ (TurnEnded /\ Marked("caught")) => ~connected /\ cli = None

\* A failed construction, a connection, and a pass that raised, all absorbed.
C9_Witness ==
    /\ TurnEnded
    /\ Marked("caught")
    /\ Marked("down")
    /\ Len(produced) = 3
    /\ produced[1] = StatusDisconnected("SerialException")
    /\ produced[3] = StatusDisconnected("KeyError")

\* C10: the queue is what was produced and not yet consumed, in production
\* order; a turn enqueues at most one status and one data event; a turn with
\* a transition ends with exactly one status event, that of the transition,
\* enqueued last; a turn with a completed pass ends with exactly one data
\* event, carrying the pass's mapping, enqueued last; no data event is
\* enqueued while DISCONNECTED.
C10_EventsFollowTransitions ==
    /\ \E k \in 0..Len(produced) : q = SubSeq(produced, k + 1, Len(produced))
    /\ ~Marked("data_disconnected")
    /\ Count(iter, "status") <= 1
    /\ Count(iter, "data") <= 1
    /\ (TurnEnded /\ Marked("up")) =>
          /\ Count(iter, "status") = 1
          /\ Count(iter, "data") = 0
          /\ connected
          /\ Last(produced) = StatusConnected(cli)
    /\ (TurnEnded /\ Marked("down")) =>
          /\ Count(iter, "status") = 1
          /\ Count(iter, "data") = 0
          /\ ~connected
          /\ Last(produced) = StatusDisconnected(wexc)
    /\ (TurnEnded /\ Marked("pass")) =>
          /\ Count(iter, "data") = 1
          /\ Count(iter, "status") = 0
          /\ Last(produced) = DataEvent(rout)

\* A CONNECTED->DISCONNECTED transition whose notification waits in the
\* queue behind the connect notification.
C10_Witness ==
    /\ TurnEnded
    /\ Marked("down")
    /\ Len(q) = 2
    /\ IsStatus(q[1], "Connected")
    /\ IsStatus(q[2], "Disconnected")

\* C11: once the stop event is set the worker exits; it leaves the loop only
\* from the test at the head of the loop; with the event set it starts no
\* turn from that test; and an event enqueued with the event set is the only
\* event of the turn that was in progress, so at most one event follows the
\* signal.
C11_StopTerminates ==
    /\ stop ~> (wpc = "exited")
    /\ [][wpc' = "exited" => wpc \in {"while", "exited"}]_vars
    /\ [][(stop /\ wpc = "while") => wpc' \in {"while", "exited"}]_vars
    /\ [][(stop /\ produced' # produced) =>
             /\ Count(iter, "status") + Count(iter, "data") = 0
             /\ Len(produced') = Len(produced) + 1]_vars

\* The window was closed, the pass in progress was finished and its data
\* enqueued, and the worker has exited.
C11_Witness ==
    /\ upc = "closed"
    /\ stop
    /\ wpc = "exited"
    /\ Marked("pass")
    /\ Marked("data")

\* C12: when the worker has exited the loop holds no transport client and
\* is not CONNECTED.
C12_ExitReleasesTransport ==
    wpc = "exited" => ~connected /\ cli = None

\* Discovery would succeed: registers.json readable, the port listed and
\* open, the instrument answering at a baud rate of the scan.
DiscoveryWouldSucceed == found.exc = "" /\ found.det # None

\* C13: after an attempt that found nothing or raised, the worker goes back
\* to the head of the loop; and if from some point on Discovery would succeed
\* and the loop is not stopped, the loop eventually becomes CONNECTED (or, in
\* the model, the bounded event history is full).
C13_RetriesUntilConnected ==
    /\ [][(wpc \in {"sleep_scan", "except_sleep"}) =>
             (wpc' \in {wpc, "while"})]_vars
    /\ (<>[](DiscoveryWouldSucceed /\ ~stop)) =>
          (<>(connected \/ Len(produced) = MaxEvents))

\* CONNECTED after an attempt that raised.
C13_Witness ==
    /\ connected
    /\ Len(produced) = 2
    /\ IsStatus(produced[1], "Disconnected")
    /\ IsStatus(produced[2], "Connected")

\* A register map the data model calls malformed: a descriptor without a
\* required field, a numeric descriptor with scale 0, an enum16 or bitmask16
\* descriptor without a symbol map.
MalformedReg(r) ==
    \/ ~(BaseKeys \subseteq r.keys)
    \/ /\ r.type \in {"uint16", "int16", "uint32", "int32"}
       /\ "scale" \in r.keys
       /\ r.scale = 0
    \/ r.type \in {"enum16", "bitmask16"} /\ "map" \notin r.keys
Malformed(rs) == \E i \in DOMAIN rs : MalformedReg(rs[i])

\* C22: with a malformed register map loaded, the worker starts no Discovery
\* call and no acquisition pass.
C22_MalformedMapRejected ==
    [][Malformed(regs) => ~(WAutodetect \/ WReadAll)]_vars

\* C23: whenever the connected flag is raised a transport client is held;
\* the flag is raised only with the client already stored, and the client is
\* cleared only with the flag already lowered.
C23_ConnectedHoldsClient ==
    /\ [](connected => cli # None)
    /\ [][(~connected /\ connected') => (cli # None /\ cli' = cli)]_vars
    /\ [][(cli # None /\ cli' = None) => (~connected /\ ~connected')]_vars

\* The handler, reached from CONNECTED, has lowered the flag and still
\* holds the client of the connection that failed.
C23_Witness ==
    /\ wpc = "except_cli"
    /\ ~connected
    /\ cli # None
    /\ IsStatus(produced[1], "Connected")

\* the status events produced so far, in order
StatusEvents == SelectSeq(produced, LAMBDA ev : ev.kind = "status")

\* C24: the status events produced alternate Connected, Disconnected,
\* Connected, ... starting with Connected, so none is enqueued without a
\* transition.
C24_StatusAlternates ==
    \A i \in DOMAIN StatusEvents :
        StatusEvents[i].text = IF i % 2 = 1 THEN "Connected" ELSE "Disconnected"

\* _on_write reaches write_u16(self.cli, ...) in this step
WriteAttempt ==
    /\ upc = "on_write"
    /\ upc' # "on_write"
    /\ on_write(regs, ureq.name, ureq.text).exc = ""

\* C25: the UI thread attempts a register write only while the loop is
\* CONNECTED and holds a client, so never on a dropped client and never
\* after the loop has gone DISCONNECTED.
C25_WriteOnlyWhileConnected ==
    [][WriteAttempt => (connected /\ cli # None)]_vars

\* The write of '150' to CH1_Density is on the wire of the loop's client.
C25_Witness ==
    /\ upc = "write_u16"
    /\ WriteOp(2, 150) \in wire
    /\ connected
    /\ cli # None

(***************************************************************************)
(* app.wait_for_device (SpecWait).                                         *)
(***************************************************************************)
\* The arguments of a call: given holds the overrides that are not None
\* (--port, --baud), parity is always given (it has a default).
WaitArgs ==
    { [given |-> g, port_override |-> p, baud_override |-> b, parity |-> par] :
        g \in SUBSET {"port", "baud"}, p \in {"", "COM1"},
        b \in {0, COMMON_BAUDS[5], COMMON_BAUDS[1]}, par \in {"N", "E", "NONE"} }

\* Python's truth value of port_override and of baud_override
TruthyPort(w) == "port" \in w.given /\ w.port_override # ""
TruthyBaud(w) == "baud" \in w.given /\ w.baud_override # 0

\* Mutant: the override is used for the first attempt only.
UseOverride_once(w) == TruthyPort(w) /\ TruthyBaud(w) /\ w.tries = <<>>

\* if port_override and baud_override
UseOverride(w) == TruthyPort(w) /\ TruthyBaud(w)

InitWait ==
    /\ regs = <<WindowReg>>
    /\ endianness = "big"
    /\ cfgProbe = NoProbe
    /\ \E e \in PollEnvs : ports = e.ports /\ portState = [p \in {"COM1"} |-> e.st]
    /\ cfgOk = TRUE
    /\ parityNames \in {PySerialNames, LetterNames}
    /\ envSteps = 0
    /\ found = autodetect(cfgOk, cfgProbe, regs, endianness, ports, portState)
    /\ ReadIdle
    /\ ScanIdle
    /\ AppInit
    /\ \E a \in WaitArgs :
          wf = [pc |-> "try", given |-> a.given, port_override |-> a.port_override,
                baud_override |-> a.baud_override, parity |-> a.parity,
                shown |-> FALSE, scans |-> 0, tries |-> <<>>, ret |-> None]
    /\ wr = WriteIdle
    /\ ar = AppReadIdle

\* One turn of the loop with the override: RTUClient(port_override,
\* baud_override, slave, parity=parity) and the return of the triple, or the
\* exception swallowed by except Exception.
WfOverride ==
    /\ wf.pc = "try"
    /\ UseOverride(wf)
    /\ LET c == RTUClient(portState, wf.port_override, wf.baud_override, wf.parity)
           triple == Client(wf.port_override, wf.baud_override, wf.parity)
       IN  wf' = [wf EXCEPT !.tries = Append(@, triple),
                            !.pc = IF c.exc = "" THEN "returned" ELSE "sleep",
                            !.ret = IF c.exc = "" THEN triple ELSE @]
    /\ UNCHANGED <<cfgVars, envVars, readVars, scanVars, appVars, wr, ar>>

\* One turn of the loop without it: det = autodetect() is entered.
WfAutodetect ==
    /\ wf.pc = "try"
    /\ ~UseOverride(wf)
    /\ wf' = [wf EXCEPT !.scans = @ + 1, !.pc = "scanning"]
    /\ ScanCalled
    /\ UNCHANGED <<cfgVars, envVars, readVars, appVars, wr, ar>>

\* autodetect() returns: if det: return det; the notice printed once; or it
\* raises: except KeyboardInterrupt re-raises and the exception leaves
\* wait_for_device, except Exception swallows every other one.
WfScanReturn ==
    /\ wf.pc = "scanning"
    /\ spc \in {"done", "raised"}
    /\ wf' = [wf EXCEPT !.pc = IF spc = "done" /\ det # None THEN "returned"
                                ELSE IF spc = "raised" /\ sexc = "KeyboardInterrupt"
                                THEN "interrupted" ELSE "sleep",
                         !.ret = IF spc = "done" THEN det ELSE @,
                         !.shown = @ \/ (spc = "done" /\ det = None)]
    /\ ScanTaken
    /\ UNCHANGED <<cfgVars, envVars, readVars, appVars, wr, ar>>

\* time.sleep(wait_interval), and the loop again
WfSleep ==
    /\ wf.pc = "sleep"
    /\ Len(wf.tries) + wf.scans < MaxTries
    /\ wf' = [wf EXCEPT !.pc = "try"]
    /\ UNCHANGED <<cfgVars, envVars, readVars, scanVars, appVars, wr, ar>>

\* SIGINT while autodetect() runs (wait_for_device runs in the main thread):
\* KeyboardInterrupt is raised in load_config, comports, RTUClient, time.sleep
\* or the probe read; it is no Exception, so neither read_all's handler nor
\* _probe_once's takes it, and it leaves autodetect().
ScanInterrupt ==
    /\ wf.pc = "scanning"
    /\ spc \in {"load", "comports", "scan", "probe"}
    /\ spc' = "raised"
    /\ sexc' = "KeyboardInterrupt"
    /\ UNCHANGED <<cfgVars, envVars, readVars, sidx, probed, det, scands, appVars,
                   pathVars>>

\* SIGINT on the override path (in RTUClient() and the print before it) or at
\* the head of a turn: except KeyboardInterrupt re-raises; and in
\* time.sleep(wait_interval), which is outside the try block.
WfInterrupt ==
    /\ wf.pc \in {"try", "sleep"}
    /\ wf' = [wf EXCEPT !.pc = "interrupted"]
    /\ UNCHANGED <<cfgVars, envVars, readVars, scanVars, appVars, wr, ar>>

NextWait ==
    \/ WfOverride \/ WfAutodetect \/ NextScan \/ ScanInterrupt \/ WfScanReturn
    \/ WfSleep \/ WfInterrupt \/ Env

SpecWait == InitWait /\ [][NextWait]_vars

\* The caller supplied a port and a baud rate (a non-empty port name, a
\* non-zero baud rate).
Overridden ==
    /\ {"port", "baud"} \subseteq wf.given
    /\ wf.port_override # ""
    /\ wf.baud_override # 0

\* C14: with a fixed override wait_for_device never calls autodetect, every
\* connection attempt uses the override triple, and the value returned is
\* (port_override, baud_override, parity).
C14_OverrideBypassesDiscovery ==
    Overridden =>
        /\ wf.scans = 0
        /\ \A i \in DOMAIN wf.tries :
              wf.tries[i] = Client(wf.port_override, wf.baud_override, wf.parity)
        /\ wf.pc = "sleep" => wf.tries # <<>>
        /\ wf.pc = "returned" =>
              wf.ret = Client(wf.port_override, wf.baud_override, wf.parity)

\* A failed attempt with the override, then a successful one.
C14_Witness ==
    /\ Overridden
    /\ Len(wf.tries) = 2
    /\ wf.pc = "returned"

(***************************************************************************)
(* Writes through the settings panel while the worker polls (SpecWrite).   *)
(* wr follows the field of one register: pc, the UI thread in the main     *)
(* loop or inside write_single; n, the commits so far; typed, text, exc    *)
(* and sent, the latest commit: the text written to the field, the text    *)
(* _commit handed to _on_write, the exception shown in the message box and *)
(* whether write_single was called; calls, every write_single call;        *)
(* passes and back, the acquisition passes started and the values of the   *)
(* latest completed; pend, the read_regs call in flight and the line at    *)
(* the moment of its answer; readOf and backOf, for the current pass and   *)
(* for the latest completed, the number of commits that had returned when  *)
(* the read of the register was issued and whether the device answered.    *)
(* The device's registers are line.mem.                                    *)
(***************************************************************************)
MaxCommits == 2
MaxPasses == 1

Bounded(r, lo, hi, scale) ==
    [r EXCEPT !.min = lo, !.max = hi, !.scale = scale,
              !.keys = @ \cup {"min", "max", "scale"}]

\* {"0": "external", "1": "Ä", "2": "k"}
LabelMap == <<[k |-> 0, label |-> <<101, 120, 116, 101, 114, 110, 97, 108>>],
              [k |-> 1, label |-> <<196>>],
              [k |-> 2, label |-> <<107>>]>>

\* Descriptors of fields of the panel, at address 0: plain single-word
\* types, symbol maps, and bounds (0, 100) with scale 1, 2 and 0.
WritePool ==
    { Reg("CH1_Density", "uint16", 0, BaseKeys),
      Reg("CH1_Density", "int16", 0, BaseKeys),
      Reg("CH1_Window_ms", "uint16", 0, BaseKeys),
      Reg("CH1_ZFactor", "bool16", 0, BaseKeys),
      Reg("CH1_AlphaFiltering_ON", "bool16", 0, BaseKeys),
      [Reg("CH1_OscillatorSelect", "enum16", 0, BaseKeys \cup {"map"})
          EXCEPT !.map = OscMap],
      [Reg("CH1_ZFactor", "enum16", 0, BaseKeys \cup {"map"})
          EXCEPT !.map = LabelMap],
      Bounded(Reg("CH1_ToolingFactor_x1000", "uint16", 0, BaseKeys), 0, 100, 1),
      Bounded(Reg("CH1_ToolingFactor_x1000", "uint16", 0, BaseKeys), 0, 100, 2),
      Bounded(Reg("CH1_ToolingFactor_x1000", "uint16", 0, BaseKeys), 0, 100, 0),
      Bounded(Reg("CH1_AlphaValue_x100", "uint16", 0, BaseKeys), 0, 100, 2) }

\* The settings map with the descriptor r in the place of the one of its name.
SettingsWith(r) ==
    [i \in 1..Len(SettingsRegs) |->
        IF SettingsRegs[i].name = r.name THEN r ELSE SettingsRegs[i]]

\* What is typed into a free-text entry before Return: 'abc', 'EXTERNAL',
\* ' YES ', '5' between the control characters U+001F and U+001C (white
\* space for str.strip(), not for float()), '150', '-5', '70000', '2.5',
\* 'ä', the Kelvin sign U+212A, 'nan', 'inf'
EntryTexts ==
    { <<97, 98, 99>>, <<69, 88, 84, 69, 82, 78, 65, 76>>,
      <<32, 89, 69, 83, 32>>, <<31, 53, 28>>, <<49, 53, 48>>, <<45, 53>>,
      <<55, 48, 48, 48, 48>>, <<50, 46, 53>>, <<228>>, <<8490>>,
      <<110, 97, 110>>, <<105, 110, 102>> }

\* What is written to the variable of the spin box of AlphaValue: 'abc',
\* '150', '-5', '0.125', '0.025', 'nan', '-inf', and '5' between U+001F and
\* U+001C
SpinTexts ==
    { <<97, 98, 99>>, <<49, 53, 48>>, <<45, 53>>, <<48, 46, 49, 50, 53>>,
      <<48, 46, 48, 50, 53>>, <<110, 97, 110>>, <<45, 105, 110, 102>>,
      <<31, 53, 28>> }

\* What the arrows of the spin box of Window_ms (from 100 to 2000 in steps
\* of 10) leave in the field before its command runs: '100', '110', '2000'
WindowTexts == {<<49, 48, 48>>, <<49, 49, 48>>, <<50, 48, 48, 48>>}

\* The same for the spin box of FIFO_FilterSize (from 0 to 64): '0', '1',
\* '64'
FifoTexts == {<<48>>, <<49>>, <<54, 52>>}

\* The texts the widget of a field holds in its variable when _commit
\* runs: the two values of the combo box of OscillatorSelect, "1" and "0"
\* from the check button of AlphaFiltering_ON, what is written to the
\* variable of the spin box of AlphaValue, the numbers the arrows of the
\* spin boxes of Window_ms and FIFO_FilterSize put there (their command is
\* the only way to _commit: nothing is bound to Return or FocusOut), and
\* what is typed into the entry of a free-text field.
FieldTexts(name) ==
    IF name \in {"CH1_OscillatorSelect", "CH2_OscillatorSelect"}
    THEN {OscMap[1].label, OscMap[2].label}
    ELSE IF name \in {"CH1_AlphaFiltering_ON", "CH2_AlphaFiltering_ON"}
    THEN {<<49>>, <<48>>}
    ELSE IF AlphaValueField(name) THEN SpinTexts
    ELSE IF name \in {"CH1_Window_ms", "CH2_Window_ms"} THEN WindowTexts
    ELSE IF name \in {"CH1_FIFO_FilterSize", "CH2_FIFO_FilterSize"} THEN FifoTexts
    ELSE EntryTexts

\* The client of the connection the writes go through.
WriteClient == Client("COM1", COMMON_BAUDS[5], "N")

\* The application connected, the worker in time.sleep between two passes,
\* the queue taken, the UI thread in the main loop.
InitWrite ==
    /\ \E r \in WritePool : wr = [WriteIdle EXCEPT !.pc = "mainloop", !.reg = r]
    /\ regs = SettingsWith(wr.reg)
    /\ BuildUiOk(regs)
    /\ endianness = "big"
    /\ cfgProbe = NoProbe
    /\ ports = <<"COM1">>
    /\ portState = [p \in {"COM1"} |-> Port(TRUE, COMMON_BAUDS[5])]
    /\ cfgOk = TRUE
    /\ found = NotFound
    /\ parityNames = LetterNames
    /\ envSteps = 0
    /\ line = Line(TRUE, "NoResponseError", {}, DeviceMem)
    /\ rpc = "sleep"
    /\ ri = 1
    /\ rout = <<>>
    /\ rexc = ""
    /\ reads = <<>>
    /\ ScanIdle
    /\ connected = TRUE
    /\ cli = WriteClient
    /\ q = <<>>
    /\ stop = FALSE
    /\ wpc = "while"
    /\ wdet = None
    /\ wexc = ""
    /\ upc = "mainloop"
    /\ ureq = NoRequest
    /\ statusVar = "Connected"
    /\ widgetsOn = TRUE
    /\ wire = {}
    /\ produced = <<>>
    /\ iter = <<>>
    /\ wf = [pc |-> "idle", given |-> {}, port_override |-> "", baud_override |-> 0,
             parity |-> "N", shown |-> FALSE, scans |-> 0, tries |-> <<>>,
             ret |-> None]
    /\ ar = AppReadIdle

\* The line as the client meets it now, with the registers the device holds.
WriteLine == [LineOf(portState, cli) EXCEPT !.mem = line.mem]

\* _commit with t written to the variable of the field: text =
\* var.get().strip(), then _on_write(reg_name, ch, text): the exception goes
\* to the message box, or write_u16(self.cli, reg['address'], iv, fn=6) ->
\* cli.write_single(addr, int(value), functioncode=fn) is called.
Commit(t) ==
    LET text == commit_text(wr.reg.name, t)
        w == on_write(regs, wr.reg.name, text)
    IN  wr' = IF w.exc # ""
              THEN [wr EXCEPT !.n = @ + 1, !.typed = t, !.text = text,
                              !.exc = w.exc, !.sent = FALSE]
              ELSE [wr EXCEPT !.n = @ + 1, !.typed = t, !.text = text,
                              !.exc = "", !.sent = TRUE,
                              !.calls = Append(@, [addr |-> w.addr, value |-> w.iv]),
                              !.pc = "write_single"]

\* The user's commit through an enabled widget: Return or FocusOut in an
\* entry, a choice in the combo box, a click on the check button, and for
\* AlphaValue the write to the variable itself (sync_widgets).
WrCommit ==
    /\ wr.pc = "mainloop"
    /\ wr.n < MaxCommits
    /\ widgetsOn
    /\ connected /\ cli # None
    /\ \E t \in FieldTexts(wr.reg.name) : Commit(t)
    /\ UNCHANGED <<cfgVars, envVars, readVars, scanVars, appVars, wf, ar>>

\* _ui_tick takes a data event: settings.sync_values(values) writes the
\* value of every field that does not hold the focus to its variable, and
\* set_connected follows.  For an AlphaValue field with a number the write
\* of f"{float(v):.2f}" runs sync_widgets and with it _commit.
WrUiTick ==
    /\ wr.pc = "mainloop"
    /\ q # <<>>
    /\ q' = Tail(q)
    /\ widgetsOn' = (connected /\ cli # None)
    /\ LET v == DictGet(Head(q).values, wr.reg.name)
           x == Fin(v.n[1] * 65536 + v.n[2], 0)
       IN  \E focus \in BOOLEAN :
              IF ~focus /\ AlphaValueField(wr.reg.name) /\ v.ty = "num"
              THEN /\ wr.n < MaxCommits
                   /\ Commit(Fmt2(x))
              ELSE wr' = wr
    /\ UNCHANGED <<cfgVars, envVars, readVars, scanVars, connected, cli, stop,
                   workerVars, upc, ureq, statusVar, wire, produced, iter, wf, ar>>

\* write_register(address, value, signed=False) with a value one register
\* holds and the device answering: the device stores it.
WrStored ==
    /\ wr.pc = "write_single"
    /\ WriteLine.up
    /\ LET c == wr.calls[Len(wr.calls)]
       IN  /\ c.value \in 0..65535
           /\ line' = [line EXCEPT !.mem[c.addr + 1] = c.value]
    /\ wr' = [wr EXCEPT !.pc = "mainloop"]
    /\ UNCHANGED <<cfgVars, envVars, rpc, ri, rout, rexc, reads, scanVars, appVars,
                   wf, ar>>

\* The same call with a value no register holds.  What the serial library
\* does with it is outside this repository: it raises, or it sends the low
\* 16 bits.
WrOutOfRange ==
    /\ wr.pc = "write_single"
    /\ LET c == wr.calls[Len(wr.calls)]
       IN  /\ c.value \notin 0..65535
           /\ \/ /\ wr' = [wr EXCEPT !.exc = "ValueError", !.pc = "mainloop"]
                 /\ line' = line
              \/ /\ WriteLine.up
                 /\ wr' = [wr EXCEPT !.pc = "mainloop"]
                 /\ line' = [line EXCEPT !.mem[c.addr + 1] = c.value % 65536]
    /\ UNCHANGED <<cfgVars, envVars, rpc, ri, rout, rexc, reads, scanVars, appVars,
                   wf, ar>>

\* The call with the port gone or nothing answering: it raises, and the
\* exception goes to the message box.
WrWriteFails ==
    /\ wr.pc = "write_single"
    /\ ~WriteLine.up
    /\ wr' = [wr EXCEPT !.exc = WriteLine.exc, !.pc = "mainloop"]
    /\ UNCHANGED <<cfgVars, envVars, readVars, scanVars, appVars, wf, ar>>

\* The position of the first descriptor from i on that issues a read, or
\* of the last descriptor.
NextReadAt(i) ==
    IF \E j \in i..Len(regs) : IssuesRead(regs[j])
    THEN CHOOSE j \in i..Len(regs) :
            IssuesRead(regs[j]) /\ \A k \in i..(j - 1) : ~IssuesRead(regs[k])
    ELSE Len(regs)

\* The worker thread in read_all's loop enters the next transport call,
\* cli.read_regs(addr, count, fn): the request is on its way.  pend keeps
\* the commits that have returned by now; the device has not answered.
WrReadIssue ==
    /\ rpc = "loop"
    /\ ri <= Len(regs)
    /\ IssuesRead(regs[NextReadAt(ri)])
    /\ rpc' = "read_regs"
    /\ wr' = [wr EXCEPT !.pend =
                 <<[n |-> IF wr.pc = "write_single" THEN wr.n - 1 ELSE wr.n,
                    ans |-> <<>>]>>]
    /\ UNCHANGED <<cfgVars, envVars, line, ri, rout, rexc, reads, scanVars, appVars,
                   wf, ar>>

\* The moment of the answer inside read_regs: the device answers from the
\* registers it holds now, or nothing answers (the instrument unplugged).
\* The UI thread shares self.cli without a lock, so that its writes, and
\* the unplugging of the instrument, fall before or after this moment.
WrReadAnswer ==
    /\ rpc = "read_regs"
    /\ wr.pend[1].ans = <<>>
    /\ wr' = [wr EXCEPT !.pend[1].ans = <<WriteLine>>]
    /\ UNCHANGED <<cfgVars, envVars, readVars, scanVars, appVars, wf, ar>>

\* read_regs returns the answer or raises, and the turn ends with the
\* decode and the store (the turns before it of descriptors that read
\* nothing are taken with it: they touch nothing the UI thread shares).
WrReadReturn ==
    /\ rpc = "read_regs"
    /\ wr.pend[1].ans # <<>>
    /\ LET k == NextReadAt(ri)
           ln == wr.pend[1].ans[1]
           span == ReadFrom(cli, ln, SubSeq(regs, 1, k), endianness, ri, rout)
       IN  /\ rout' = span.out
           /\ rexc' = span.exc
           /\ rpc' = IF span.exc # "" THEN "raised" ELSE "loop"
           /\ reads' = Append(reads, Request(regs[k]))
           /\ ri' = k + 1
           /\ wr' = [wr EXCEPT
                       !.pend = <<>>,
                       !.readOf = IF regs[k].name = wr.reg.name
                                  THEN [n |-> wr.pend[1].n, up |-> ln.up]
                                  ELSE @]
    /\ UNCHANGED <<cfgVars, envVars, line, scanVars, appVars, wf, ar>>

\* The turns of the last descriptors of the map, which read nothing.
WrNoRead ==
    /\ rpc = "loop"
    /\ ri <= Len(regs)
    /\ ~IssuesRead(regs[NextReadAt(ri)])
    /\ LET span == ReadFrom(cli, WriteLine, regs, endianness, ri, rout)
       IN  /\ rout' = span.out
           /\ rexc' = span.exc
           /\ rpc' = IF span.exc # "" THEN "raised" ELSE "loop"
    /\ ri' = Len(regs) + 1
    /\ UNCHANGED <<cfgVars, envVars, line, reads, scanVars, appVars, pathVars>>

\* The instrument is unplugged from the port, or plugged back.
WrPlug ==
    /\ envSteps < MaxEnvSteps
    /\ envSteps' = envSteps + 1
    /\ portState' = [portState EXCEPT !["COM1"] =
                        Port(TRUE, IF @.baud = 0 THEN COMMON_BAUDS[5] ELSE 0)]
    /\ UNCHANGED <<cfgVars, ports, cfgOk, found, parityNames, readVars, scanVars,
                   appVars, pathVars>>

\* read_all returns and self.q.put(("data", (t, values))) follows.
WrPutData ==
    /\ rpc = "loop"
    /\ ri > Len(regs)
    /\ q' = Append(q, DataEvent(rout))
    /\ wr' = [wr EXCEPT !.back = rout, !.backOf = wr.readOf]
    /\ rpc' = "sleep"
    /\ UNCHANGED <<cfgVars, envVars, line, ri, rout, rexc, reads, scanVars, connected,
                   cli, stop, workerVars, uiVars, wire, produced, iter, wf, ar>>

\* time.sleep(SAMPLE_PERIOD_SEC), the tests of the loop (the stop event is
\* clear, self.connected holds) and read_all again: out = {}
WrSleepSample ==
    /\ rpc = "sleep"
    /\ wr.passes < MaxPasses
    /\ rpc' = "loop"
    /\ ri' = 1
    /\ rout' = <<>>
    /\ reads' = <<>>
    /\ wr' = [wr EXCEPT !.passes = @ + 1]
    /\ UNCHANGED <<cfgVars, envVars, line, rexc, scanVars, appVars, wf, ar>>

NextWrite ==
    \/ WrCommit \/ WrUiTick \/ WrStored \/ WrOutOfRange \/ WrWriteFails
    \/ WrReadIssue \/ WrReadAnswer \/ WrReadReturn \/ WrNoRead \/ WrPutData \/ WrSleepSample
    \/ WrPlug

SpecWrite == InitWrite /\ [][NextWrite]_vars

(***************************************************************************)
(* Claims about the write path (SpecWrite), each about the latest commit.  *)
(***************************************************************************)
IsEnum(r) == r.type = "enum16" /\ "map" \in r.keys
IsNumeric(r) == ~IsEnum(r) /\ r.type # "bool16"
KnownLabel(r, t) == \E i \in 1..Len(r.map) : Lower(r.map[i].label) = Lower(t)
\* the text stands for no number: float() rejects it, or gives an infinity
\* or NaN
NonNumeric(t) == float(t).exc # "" \/ float(t).v.kind # "fin"
\* the text cannot be encoded for the register
EncodeFails ==
    \/ IsNumeric(wr.reg) /\ NonNumeric(wr.text)
    \/ IsEnum(wr.reg) /\ ~KnownLabel(wr.reg, wr.text) /\ NonNumeric(wr.text)
WriteStarted == wr.n > 0

\* C15: a text that cannot be encoded raises an error to the caller of
\* _on_write and reaches no write_single call; the loop stays CONNECTED with
\* the same client and nothing goes on the wire.
C15_EncodeFailureStopsWrite ==
    (WriteStarted /\ EncodeFails) =>
        /\ wr.exc # ""
        /\ ~wr.sent
        /\ Len(wr.calls) < wr.n
        /\ wr.pc = "mainloop"
        /\ connected
        /\ cli = WriteClient
        /\ wire = {}

Clamp(v, lo, hi) == IF Lt(v, lo) THEN lo ELSE IF Lt(hi, v) THEN hi ELSE v
HasBounds(r) == {"min", "max"} \subseteq r.keys

\* C16: for a numeric register with min and max the raw value written is
\* round(clamp(v, min, max) / scale), and round(clamp(v, min, max)) when
\* the scale is 0, for every v: the number or the infinity float() makes of
\* the text handed to _on_write.
C16_ClampBeforeScale ==
    (/\ WriteStarted
     /\ IsNumeric(wr.reg)
     /\ HasBounds(wr.reg)
     /\ float(wr.text).exc = ""
     /\ float(wr.text).v.kind # "nan") =>
        /\ wr.sent
        /\ wr.calls # <<>>
        /\ wr.calls[Len(wr.calls)].value =
              LET c == Clamp(float(wr.text).v, Fin(wr.reg.min, 0), Fin(wr.reg.max, 0))
              IN  IF wr.reg.scale # 0 THEN RoundDiv(c.m, Pow10(c.k) * wr.reg.scale)
                  ELSE RoundDiv(c.m, Pow10(c.k))

\* Bounds (0, 100), scale 1, input 150: the raw value of 100 is written and
\* stored.
C16_Witness ==
    /\ wr.pc = "mainloop"
    /\ HasBounds(wr.reg) /\ wr.reg.scale = 1
    /\ wr.text = <<49, 53, 48>>
    /\ wr.calls = <<[addr |-> 0, value |-> 100]>>
    /\ line.mem[1] = 100

\* C17: every raw value handed to write_single is in 0..65535.
C17_RawIsRegisterValue ==
    \A i \in DOMAIN wr.calls : wr.calls[i].value \in 0..65535

\* 'true', 'YES', '1'; '0'
TrueTexts == {<<116, 114, 117, 101>>, <<89, 69, 83>>, <<49>>}
FalseTexts == {<<48>>}

\* the text is an integer of the given range
IntegerIn(t, range) ==
    /\ ~NonNumeric(t)
    /\ float(t).v.k = 0
    /\ float(t).v.m \in range

\* v is a value of the register's type, the register has scale 1 and no
\* bounds
RoundTripCase ==
    /\ WriteStarted
    /\ ~HasBounds(wr.reg)
    /\ ScaleOf(wr.reg) = 1
    /\ \/ wr.reg.type = "uint16" /\ IntegerIn(wr.text, 0..65535)
       \/ wr.reg.type = "int16" /\ IntegerIn(wr.text, (0 - 32768)..32767)
       \/ wr.reg.type = "bool16" /\ wr.text \in TrueTexts \cup FalseTexts
\* the engineering value the text stands for
Written ==
    IF wr.reg.type = "bool16" THEN PyBool(wr.text \in TrueTexts)
    ELSE PyNum(float(wr.text).v.m)

\* The latest pass read the register after the latest commit returned, with
\* the device answering.
ReadBack ==
    /\ wr.pc = "mainloop"
    /\ wr.backOf = [n |-> wr.n, up |-> TRUE]

\* C18: for uint16, int16 and bool16 with scale 1 and no bounds the write
\* is accepted, and the value read back after it is the value written.
C18_RoundTrip ==
    (RoundTripCase /\ wr.pc = "mainloop") =>
        /\ wr.exc \in {""} \cup TransportErrors
        /\ (ReadBack /\ wr.exc = "") =>
              /\ DictHas(wr.back, wr.reg.name)
              /\ DictGet(wr.back, wr.reg.name) = Written

(***************************************************************************)
(* Decoding of one register over a grid of words (SpecDecode): a pass of   *)
(* read_all over a single descriptor at address 0.                         *)
(***************************************************************************)
DecodePool ==
    { Reg("I16", "int16", 0, BaseKeys),
      Reg("U32", "uint32", 0, BaseKeys),
      Reg("I32", "int32", 0, BaseKeys) }

\* 0x0000, 0x0001, 0x7FFF, 0x8000, 0xFFFF
WordGrid == {0, 1, 32767, 32768, 65535}

\* A mac48 descriptor, and the words 0x0011, 0x2233, 0x4455 a device holds
\* for it in any arrangement.
MacReg == Reg("MAC", "mac48", 0, BaseKeys)
MacWords == {17, 8755, 17493}

InitDecode ==
    /\ \E r \in DecodePool \cup {MacReg} : regs = <<r>>
    /\ endianness \in {"big", "little"}
    /\ cfgProbe = NoProbe
    /\ ports = <<>>
    /\ portState = <<>>
    /\ cfgOk = TRUE
    /\ found = NotFound
    /\ parityNames = LetterNames
    /\ envSteps = 0
    /\ AppInit
    /\ PathIdle
    /\ ScanIdle
    /\ IF regs[1].type = "mac48"
       THEN \E w0 \in MacWords, w1 \in MacWords, w2 \in MacWords :
               line = Line(TRUE, "NoResponseError", {}, <<w0, w1, w2>>)
       ELSE \E w0 \in WordGrid, w1 \in WordGrid :
               line = Line(TRUE, "NoResponseError", {}, <<w0, w1>>)
    /\ rpc = "loop"
    /\ ri = 1
    /\ rout = <<>>
    /\ rexc = ""
    /\ reads = <<>>

SpecDecode == InitDecode /\ [][NextRead]_vars

\* the pass over the descriptor has returned
Decoded == rpc = "done" /\ DictHas(rout, regs[1].name)
Value == DictGet(rout, regs[1].name)
W0 == line.mem[1]
W1 == line.mem[2]
W2 == line.mem[3]

\* C19: an int16 register with scale 1 decodes the word w as w when
\* w < 0x8000 and as w - 0x10000 otherwise.
C19_Int16TwosComplement ==
    (Decoded /\ regs[1].type = "int16") =>
        Value = PyNum(IF W0 < 32768 THEN W0 ELSE W0 - 65536)

\* C20: the words (w0, w1) read in that order assemble to w0 * 2^16 + w1
\* with endianness big and to w1 * 2^16 + w0 with little; uint32 decodes to
\* that value and int32 to that value minus 2^32 when bit 31 is set.  Big
\* [1, 0] gives 65536, little [1, 0] gives 1, big [0xFFFF, 0xFFFF] as int32
\* gives -1.
C20_Assemble32 ==
    (Decoded /\ regs[1].type \in {"uint32", "int32"}) =>
        LET hi == IF endianness = "big" THEN W0 ELSE W1
            lo == IF endianness = "big" THEN W1 ELSE W0
            neg == regs[1].type = "int32" /\ hi >= 32768
        IN  /\ Value = PyBig(IF neg THEN hi - 65536 ELSE hi, lo)
            /\ (endianness = "big" /\ W0 = 1 /\ W1 = 0) => Value = PyNum(65536)
            /\ (endianness = "little" /\ W0 = 1 /\ W1 = 0) => Value = PyNum(1)
            /\ (endianness = "big" /\ W0 = 65535 /\ W1 = 65535 /\ regs[1].type = "int32")
                  => Value = PyNum(0 - 1)

\* Little-endian words [1, 0] decoded as int32: the value 1.
C20_Witness ==
    /\ Decoded
    /\ regs[1].type = "int32"
    /\ endianness = "little"
    /\ W0 = 1 /\ W1 = 0
    /\ Value = PyNum(1)

\* C21: a mac48 register decodes the words (w0, w1, w2) to the six bytes
\* hi(w0), lo(w0), hi(w1), lo(w1), hi(w2), lo(w2) rendered as colon-separated
\* uppercase hex, whatever the endianness; [0x0011, 0x2233, 0x4455] gives
\* "00:11:22:33:44:55".
C21_MacMsbFirst ==
    (Decoded /\ regs[1].type = "mac48") =>
        /\ Value = PyStr(Join([i \in 1..6 |->
                               Hex2(<<Hi(W0), Lo(W0), Hi(W1), Lo(W1), Hi(W2), Lo(W2)>>[i])],
                            <<58>>))
        /\ (W0 = 17 /\ W1 = 8755 /\ W2 = 17493) =>
              Value = PyStr(<<48, 48, 58, 49, 49, 58, 50, 50, 58, 51, 51, 58, 52, 52, 58, 53, 53>>)

(***************************************************************************)
(* The command-line app's acquisition pass (app.read_all), and the two     *)
(* passes over the same register list and device (SpecCompare).            *)
(***************************************************************************)
\* app.py's own copies of the text helpers
app_words_to_ascii(ws) ==
    LET ascii == SelectSeq(WordBytes(ws), LAMBDA c : c < 128)
    IN  PyStr(LStrip(RStrip(RStrip(ascii, {0}), SpaceBytes), SpaceBytes))

app_words_to_ip(ws) ==
    LET b == WordBytes(ws)
    IN  PyStr(Join([i \in 1..Len(b) |-> DecChars(b[i])], <<46>>))

\* if t in ('uint16','int16','enum16','bool16','command16') ...
\* elif t in ('uint32','int32','ip32') ... elif t == 'ascii'
AppFamily16 == {"uint16", "int16", "enum16", "bool16", "command16"}
AppFamily32 == {"uint32", "int32", "ip32"}

AppIssuesRead(r) ==
    /\ "type" \in r.keys
    /\ "address" \in r.keys
    /\ r.type \in AppFamily16 \cup AppFamily32 \cup {"ascii"}

AppCountOf(r) ==
    IF r.type \in AppFamily16 THEN 1
    ELSE IF r.type \in AppFamily32 THEN 2
    ELSE WordsOf(r)

AppRequest(r) == [addr |-> r.address, count |-> AppCountOf(r), fn |-> FnOf(r)]

AppDecode16(r, w) ==
    IF r.type = "bool16" THEN PyBool(w # 0)
    ELSE IF r.type = "enum16" /\ "map" \in r.keys
    THEN IF MapHas(r.map, w) THEN PyStr(MapLabel(r.map, w)) ELSE PyNum(w)
    ELSE PyNum(w * ScaleOf(r))

AppDecode32(r, ws, e) ==
    LET val == IF e = "big" THEN <<ws[1], ws[2]>> ELSE <<ws[2], ws[1]>>
        hi == IF r.type = "int32" /\ val[1] >= 32768 THEN val[1] - 65536 ELSE val[1]
    IN  PyBig(hi * ScaleOf(r), val[2] * ScaleOf(r))

\* The try block of app.read_all up to the assignment.
AppTryBody(c, ln, i, r, e) ==
    IF "type" \notin r.keys \/ "address" \notin r.keys THEN [exc |-> "KeyError", v |-> PyNone]
    ELSE IF ~AppIssuesRead(r) THEN [exc |-> "", v |-> Unsupported]
    ELSE LET resp == read_regs(c, ln, i, AppRequest(r))
         IN  IF resp.exc # "" THEN [exc |-> resp.exc, v |-> PyNone]
             ELSE IF r.type \in AppFamily16
             THEN [exc |-> "", v |-> AppDecode16(r, resp.words[1])]
             ELSE IF r.type = "ip32" THEN [exc |-> "", v |-> app_words_to_ip(resp.words)]
             ELSE IF r.type = "ascii" THEN [exc |-> "", v |-> app_words_to_ascii(resp.words)]
             ELSE [exc |-> "", v |-> AppDecode32(r, resp.words, e)]

\* The body of app.read_all's loop with its stores.
app_read_one(c, ln, i, r, e, out) ==
    LET body == AppTryBody(c, ln, i, r, e)
    IN  IF "name" \notin r.keys THEN [exc |-> "KeyError", out |-> out]
        ELSE IF body.exc # "" THEN [exc |-> "", out |-> DictSet(out, r.name, ErrMarker(body.exc))]
        ELSE [exc |-> "", out |-> DictSet(out, r.name, body.v)]

\* Descriptors of every type of the data model, and some without a field.
\* {"1": "RUNNING", "2": "FAULT"}
BitsMap == <<[k |-> 1, label |-> <<82, 85, 78, 78, 73, 78, 71>>],
             [k |-> 2, label |-> <<70, 65, 85, 76, 84>>]>>

ComparePool ==
    { Reg("U16", "uint16", 0, BaseKeys),
      Reg("I32", "int32", 1, BaseKeys),
      [Reg("OSC", "enum16", 2, BaseKeys \cup {"map"}) EXCEPT !.map = OscMap],
      [Reg("BITS", "bitmask16", 3, BaseKeys \cup {"map"}) EXCEPT !.map = BitsMap],
      Reg("IP", "ip32", 0, BaseKeys),
      Reg("MAC", "mac48", 1, BaseKeys),
      [Reg("TXT", "ascii", 0, BaseKeys \cup {"words"}) EXCEPT !.words = 2],
      Reg("TXT1", "ascii", 3, BaseKeys),
      [Reg("IN4", "uint16", 2, BaseKeys \cup {"function"}) EXCEPT !.function = 4],
      Reg("F32", "float32", 0, BaseKeys),
      Reg("NOADDR", "bool16", 0, {"name", "type"}) }

CompareLists(n) ==
    UNION { { s \in [1..k -> ComparePool] : \A i, j \in 1..k : i # j => s[i] # s[j] }
            : k \in 1..n }

InitCompare ==
    /\ regs \in CompareLists(MaxRegs)
    /\ endianness \in {"big", "little"}
    /\ cfgProbe = NoProbe
    /\ ports = <<>>
    /\ portState = <<>>
    /\ cfgOk = TRUE
    /\ found = NotFound
    /\ parityNames = LetterNames
    /\ envSteps = 0
    /\ AppInit
    /\ wf = [pc |-> "idle", given |-> {}, port_override |-> "", baud_override |-> 0,
             parity |-> "N", shown |-> FALSE, scans |-> 0, tries |-> <<>>,
             ret |-> None]
    /\ wr = WriteIdle
    /\ ar = [AppReadIdle EXCEPT !.pc = "loop"]
    /\ \E f \in SUBSET (1..Len(regs)) : line = Line(TRUE, "NoResponseError", f, DeviceMem)
    /\ rpc = "loop"
    /\ ri = 1
    /\ rout = <<>>
    /\ rexc = ""
    /\ reads = <<>>
    /\ ScanIdle

\* One turn of app.read_all's `for r in regs`, on the same client and line.
AppReadStep ==
    /\ ar.pc = "loop"
    /\ rpc \in {"done", "raised"}
    /\ ar.i <= Len(regs)
    /\ LET one == app_read_one(ProbeClient, line, ar.i, regs[ar.i], endianness, ar.out)
       IN  ar' = [ar EXCEPT
                    !.out = one.out,
                    !.exc = one.exc,
                    !.pc = IF one.exc # "" THEN "raised" ELSE "loop",
                    !.reads = IF AppIssuesRead(regs[ar.i])
                              THEN Append(@, AppRequest(regs[ar.i])) ELSE @,
                    !.i = @ + 1]
    /\ UNCHANGED <<cfgVars, envVars, readVars, scanVars, appVars, wf, wr>>

\* return out
AppReadReturn ==
    /\ ar.pc = "loop"
    /\ rpc \in {"done", "raised"}
    /\ ar.i > Len(regs)
    /\ ar' = [ar EXCEPT !.pc = "done"]
    /\ UNCHANGED <<cfgVars, envVars, readVars, scanVars, appVars, wf, wr>>

NextCompare == ReadStep \/ ReadReturn \/ AppReadStep \/ AppReadReturn

SpecCompare == InitCompare /\ [][NextCompare]_vars

\* both passes have ended
BothEnded == rpc \in {"done", "raised"} /\ ar.pc \in {"done", "raised"}

\* C26: over the same register list, endianness and transport responses,
\* app.read_all and modbus_client.read_all end the same way, return the same
\* mapping and issue the same sequence of transport reads.
C26_SamePass ==
    BothEnded =>
        /\ ar.pc = rpc
        /\ ar.exc = rexc
        /\ ar.out = rout
        /\ ar.reads = reads

\* The types of the data model and the number of registers each consumes.
SupportedTypes ==
    {"uint16", "int16", "bool16", "enum16", "bitmask16", "command16",
     "uint32", "int32", "ip32", "mac48", "ascii"}

WordCount(r) ==
    IF r.type \in {"uint32", "int32", "ip32"} THEN 2
    ELSE IF r.type = "mac48" THEN 3
    ELSE IF r.type = "ascii" THEN (IF "words" \in r.keys THEN r.words ELSE 1)
    ELSE 1

\* The reads the data model prescribes for the descriptors rs, in order.
RECURSIVE ExpectedReads(_)
ExpectedReads(rs) ==
    IF rs = <<>> THEN <<>>
    ELSE (IF Head(rs).type \in SupportedTypes
          THEN <<[addr |-> Head(rs).address, count |-> WordCount(Head(rs)),
                  fn |-> IF "function" \in Head(rs).keys THEN Head(rs).function ELSE 3]>>
          ELSE <<>>)
         \o ExpectedReads(Tail(rs))

AllHaveRequired == \A i \in DOMAIN regs : BaseKeys \subseteq regs[i].keys

\* C27: for descriptors that hold their required fields, the reads issued by
\* the pass so far are, in register-list order, one read per descriptor of a
\* supported type at its address and function code (default 3) with the word
\* count of its type, none for an unsupported type, whether or not earlier
\* reads failed; the pass goes through the whole list and issues no write.
C27_ReadsInListOrder ==
    AllHaveRequired =>
        /\ reads = ExpectedReads(SubSeq(regs, 1, ri - 1))
        /\ rpc \in {"done", "raised"} => (rpc = "done" /\ ri - 1 = Len(regs))
        /\ wire = {}
        /\ wr.calls = <<>>

\* A finished pass whose first read, with function code 4, failed and whose
\* second read, of a mac48 register, was issued all the same.
C27_Witness ==
    /\ rpc = "done"
    /\ Len(regs) = 2
    /\ regs[1].name = "IN4"
    /\ regs[2].type = "mac48"
    /\ 1 \in line.fail
    /\ IsErrStr(DictGet(rout, "IN4"))
    /\ reads = <<[addr |-> 2, count |-> 1, fn |-> 4], [addr |-> 1, count |-> 3, fn |-> 3]>>
=============================================================================
